---------------------------- MODULE Spec2Model ----------------------------
(***************************************************************************)
(* Monte Carlo forecasting engine of the analytics simulation framework:   *)
(* config.py (curves, plans, CPI) and modules/simulation.py (parameter     *)
(* sampler, cohort LTV accumulator, simulation driver, statistics).        *)
(*                                                                         *)
(* Python floats are modelled as fixed-point numbers with six decimals: a  *)
(* float x is the integer x * 10^6.  Addition and subtraction are exact,   *)
(* multiplication and division round toward zero (as IEEE arithmetic       *)
(* rounds, at a coarser grain), float('inf') and NaN are two reserved      *)
(* values.  exp is a range-reduced Taylor series on that grid and log is   *)
(* its inverse on the grid.                                                *)
(***************************************************************************)
EXTENDS Integers, Sequences, FiniteSets, TLC

VARIABLES config, n_simulations, results, stats, run_days, pc, call, ret

vars == <<config, n_simulations, results, stats, run_days, pc, call, ret>>

-----------------------------------------------------------------------------
(* Fixed-point floats                                                      *)

ONE == 1000000
Inf == 2147483647
NaN == 2147483646
NegInf == -2147483647

IsFinite(x) == x # Inf /\ x # NaN /\ x # NegInf

Abs(x) == IF x < 0 THEN -x ELSE x
Sgn(x) == IF x < 0 THEN -1 ELSE IF x = 0 THEN 0 ELSE 1
Min(a, b) == IF a <= b THEN a ELSE b
Max(a, b) == IF a >= b THEN a ELSE b

\* An integer of the program as a float.
F(n) == n * ONE

\* |a| * |b| / 10^6 rounded down, without an intermediate above 2^31.
MulAbs(a, b) ==
    LET a1 == a \div 1000   a0 == a % 1000
        b1 == b \div 1000   b0 == b % 1000
        X == a1 * b0
        Y == a0 * b1
        Z == a0 * b0
    IN a1 * b1 + X \div 1000 + Y \div 1000
         + ((X % 1000) + (Y % 1000) + Z \div 1000) \div 1000

\* Whether |a| * |b| is above the largest finite float of the model.
MulOverflows(a, b) ==
    b \div 1000 > 0 /\ a \div 1000 > 2140000000 \div (b \div 1000)

\* Float product a * b; a product too large for a float is inf, as in IEEE.
MulF(a, b) ==
    IF a = NaN \/ b = NaN THEN NaN
    ELSE IF ~IsFinite(a) \/ ~IsFinite(b)
         THEN IF a = 0 \/ b = 0 THEN NaN
              ELSE IF Sgn(a) * Sgn(b) > 0 THEN Inf ELSE NegInf
    ELSE IF MulOverflows(Abs(a), Abs(b))
         THEN IF Sgn(a) * Sgn(b) > 0 THEN Inf ELSE NegInf
    ELSE Sgn(a) * Sgn(b) * MulAbs(Abs(a), Abs(b))

RECURSIVE DivDigits(_, _, _, _)
DivDigits(q, r, b, n) ==
    IF n = 0 THEN q
    ELSE DivDigits(q * 10 + (r * 10) \div b, (r * 10) % b, b, n - 1)

\* Float quotient a / b for finite a and finite b # 0 (the program divides
\* only under a guard that excludes the other cases).
DivF(a, b) ==
    Sgn(a) * Sgn(b) * DivDigits(Abs(a) \div Abs(b), Abs(a) % Abs(b), Abs(b), 6)

LN2 == 693147
TaylorTerms == 10

RECURSIVE ExpTaylor(_, _)
\* 1 - r/1 * (1 - r/2 * (...)) : the series of exp(-r), 0 <= r < ln 2, from
\* the innermost factor outwards; inner holds the factors computed so far,
\* the last of them the factor of the term TaylorTerms + 2 - Len(inner).
ExpTaylor(r, inner) ==
    IF Len(inner) > TaylorTerms THEN inner[Len(inner)]
    ELSE ExpTaylor(r, Append(inner,
                             ONE - MulAbs(r, inner[Len(inner)])
                                     \div (TaylorTerms + 1 - Len(inner))))

\* exp(-y) for y >= 0.
ExpNeg(y) ==
    LET k == y \div LN2
    IN IF k > 30 THEN 0 ELSE ExpTaylor(y % LN2, <<ONE>>) \div (2 ^ k)

\* math.exp / np.exp
ExpF(x) == IF x <= 0 THEN ExpNeg(-x) ELSE DivF(ONE, ExpNeg(x))

RECURSIVE LnSearch(_, _, _, _)
\* Bisection for the least y in range.lo..range.hi with exp(-y) <= v
\* (exp(-range.hi) <= v is given): the range after the halvings first..last,
\* the later half of them run from the range the earlier half has left.
LnSearch(v, first, last, range) ==
    IF first = last
    THEN IF range.lo = range.hi THEN range
         ELSE LET mid == (range.lo + range.hi) \div 2
              IN IF ExpNeg(mid) <= v THEN [lo |-> range.lo, hi |-> mid]
                 ELSE [lo |-> mid + 1, hi |-> range.hi]
    ELSE LET earlier == LnSearch(v, first, (first + last) \div 2, range)
         IN IF earlier.lo = earlier.hi THEN earlier
            ELSE LnSearch(v, (first + last) \div 2 + 1, last, earlier)

\* The middle of the y with exp(-y) = v, first being the least of them; 24
\* halvings bring any range within 0..16 to one value.
LnMiddle(v, first) ==
    (first + LnSearch(v - 1, 1, 24, [lo |-> first, hi |-> 16 * ONE]).lo - 1) \div 2

\* -log(v) for 0 < v <= 1.
LnUnit(v) == LnMiddle(v, LnSearch(v, 1, 24, [lo |-> 0, hi |-> 16 * ONE]).lo)

\* The log floor of both interpolators: max(rate, 0.001).
LogFloor == 1000

\* log of the rates k/100 and of the log floor, computed once.
LnGrid ==
    (LogFloor :> -LnUnit(LogFloor))
        @@ [v \in {k * 10000 : k \in 1..100} |-> -LnUnit(v)]

\* log(v) for v > 0, read from grid where grid has it.
LnLookup(grid, v) ==
    IF v \in DOMAIN grid THEN grid[v]
    ELSE IF v <= ONE THEN -LnUnit(v)
    ELSE LnUnit(DivF(ONE, v))

\* np.log for v > 0
LnF(v) == LnLookup(LnGrid, v)

\* base ** n for an integer n >= 0.
RECURSIVE PowF(_, _)
PowF(base, n) == IF n = 0 THEN ONE ELSE MulF(base, PowF(base, n - 1))

\* Exceptions a call can end with, as reserved results.
ZeroDivisionError == 2147483645
ValueError == 2147483644

Raised(x) == x = ZeroDivisionError \/ x = ValueError

-----------------------------------------------------------------------------
(* config.py                                                               *)

DefaultUA ==
    [cpm |-> 5000000, ctr |-> 20000, cvr |-> 250000, organic_ratio |-> 300000]

DefaultAds ==
    [ecpm_d0 |-> 12000000, impressions_per_dau_d0 |-> 6000000,
     ecpm_saturation_ratio |-> 500000, impressions_saturation_ratio |-> 400000,
     decay_half_life_days |-> 30]

DefaultRetention ==
    [d0 |-> 1000000, d1 |-> 400000, d3 |-> 300000, d7 |-> 200000,
     d14 |-> 150000, d30 |-> 100000, d60 |-> 70000, d90 |-> 50000,
     d180 |-> 30000, d365 |-> 20000]

\* SubscriptionRetentionCurve(): the dataclass defaults.
DefaultSubRetention ==
    [cycle_0 |-> 1000000, cycle_1 |-> 550000, cycle_2 |-> 450000,
     cycle_3 |-> 380000, cycle_4 |-> 320000, cycle_5 |-> 280000,
     cycle_6 |-> 250000, cycle_8 |-> 210000, cycle_12 |-> 180000,
     cycle_24 |-> 120000, cycle_52 |-> 80000]

WeeklyPlan ==
    [name |-> "weekly", price |-> 2990000, duration_days |-> 7,
     pay_rate |-> 20000, has_trial |-> TRUE, trial_days |-> 3,
     trial_to_paid_rate |-> 150000,
     sub_retention |->
        [cycle_0 |-> 1000000, cycle_1 |-> 500000, cycle_2 |-> 420000,
         cycle_3 |-> 360000, cycle_4 |-> 310000, cycle_5 |-> 270000,
         cycle_6 |-> 240000, cycle_8 |-> 190000, cycle_12 |-> 150000,
         cycle_24 |-> 80000, cycle_52 |-> 30000]]

\* cycle_5 and cycle_8 are not passed for monthly and yearly: they keep the
\* dataclass defaults.
MonthlyPlan ==
    [name |-> "monthly", price |-> 9990000, duration_days |-> 30,
     pay_rate |-> 30000, has_trial |-> TRUE, trial_days |-> 7,
     trial_to_paid_rate |-> 200000,
     sub_retention |->
        [DefaultSubRetention EXCEPT
            !.cycle_1 = 550000, !.cycle_2 = 480000, !.cycle_3 = 420000,
            !.cycle_4 = 370000, !.cycle_6 = 300000, !.cycle_12 = 200000,
            !.cycle_24 = 120000, !.cycle_52 = 50000]]

YearlyPlan ==
    [name |-> "yearly", price |-> 49990000, duration_days |-> 365,
     pay_rate |-> 10000, has_trial |-> TRUE, trial_days |-> 7,
     trial_to_paid_rate |-> 250000,
     sub_retention |->
        [DefaultSubRetention EXCEPT
            !.cycle_1 = 650000, !.cycle_2 = 550000, !.cycle_3 = 480000,
            !.cycle_4 = 420000, !.cycle_6 = 350000, !.cycle_12 = 250000,
            !.cycle_24 = 180000, !.cycle_52 = 100000]]

LifetimePlan ==
    [name |-> "lifetime", price |-> 99990000, duration_days |-> 36500,
     pay_rate |-> 5000, has_trial |-> FALSE, trial_days |-> 0,
     trial_to_paid_rate |-> 1000000,
     sub_retention |-> DefaultSubRetention]

DefaultSubscription ==
    [exploitation_start_day |-> 0, platform_fee_rate |-> 300000,
     weekly |-> WeeklyPlan, monthly |-> MonthlyPlan, yearly |-> YearlyPlan,
     lifetime |-> LifetimePlan]

DefaultSimulation ==
    [n_simulations |-> 1000, simulation_days |-> 365,
     cpm_variation |-> 150000, ctr_variation |-> 200000,
     cvr_variation |-> 250000, ecpm_variation |-> 200000,
     retention_variation |-> 150000, pay_rate_variation |-> 300000,
     sub_ret_variation |-> 200000]

\* AppConfig()
AppConfig ==
    [ua |-> DefaultUA, ads |-> DefaultAds, retention |-> DefaultRetention,
     subscription |-> DefaultSubscription, simulation |-> DefaultSimulation,
     simulation_days |-> 365]

\* max() / min() of a non-empty finite set of integers.
SetMax(S) == CHOOSE x \in S : \A y \in S : y <= x
SetMin(S) == CHOOSE x \in S : \A y \in S : x <= y

\* RetentionMetrics.get_curve
RetentionCurve(r) ==
    (0 :> r.d0) @@ (1 :> r.d1) @@ (3 :> r.d3) @@ (7 :> r.d7) @@ (14 :> r.d14)
    @@ (30 :> r.d30) @@ (60 :> r.d60) @@ (90 :> r.d90) @@ (180 :> r.d180)
    @@ (365 :> r.d365)

\* SubscriptionRetentionCurve.get_curve
SubRetentionCurve(s) ==
    (0 :> s.cycle_0) @@ (1 :> s.cycle_1) @@ (2 :> s.cycle_2)
    @@ (3 :> s.cycle_3) @@ (4 :> s.cycle_4) @@ (5 :> s.cycle_5)
    @@ (6 :> s.cycle_6) @@ (8 :> s.cycle_8) @@ (12 :> s.cycle_12)
    @@ (24 :> s.cycle_24) @@ (52 :> s.cycle_52)

\* LogLinear with the step taken from the upper anchor instead of the lower.
LogLinear_FromNext(curve, point) ==
    LET known == DOMAIN curve
        prev == SetMax({d \in known : d < point})
        next == SetMin({d \in known : d > point})
        progress == DivF(F(point - prev), F(next - prev))
        log_prev == LnF(Max(curve[prev], LogFloor))
        log_next == LnF(Max(curve[next], LogFloor))
    IN ExpF(log_next + MulF(progress, log_next - log_prev))

\* log_rate = log_prev + progress * (log_next - log_prev); exp(log_rate)
ExpLogRate(progress, log_prev, log_next) ==
    ExpF(log_prev + MulF(progress, log_next - log_prev))

\* The log-linear interpolation both interpolators end with.
LogLinear(curve, point) ==
    LET known == DOMAIN curve
        prev == SetMax({d \in known : d < point})
        next == SetMin({d \in known : d > point})
        prev_rate == curve[prev]
        next_rate == curve[next]
    IN ExpLogRate(DivF(F(point - prev), F(next - prev)),
                  LnF(Max(prev_rate, LogFloor)),
                  LnF(Max(next_rate, LogFloor)))

\* get_retention_at_day with the log floor applied to known anchors too.
get_retention_at_day_Floored(r, day) ==
    LET curve == RetentionCurve(r)
    IN IF day \in DOMAIN curve THEN Max(curve[day], LogFloor)
       ELSE IF day > 365 THEN curve[365]
       ELSE IF day < 0 THEN ValueError
       ELSE LogLinear(curve, day)

\* RetentionMetrics.get_retention_at_day
get_retention_at_day(r, day) ==
    LET curve == RetentionCurve(r)
        known_days == DOMAIN curve
    IN IF day \in known_days THEN curve[day]
       ELSE IF day > SetMax(known_days) THEN curve[SetMax(known_days)]
       ELSE IF {d \in known_days : d < day} = {} THEN ValueError
       ELSE LogLinear(curve, day)

\* SubscriptionRetentionCurve.get_retention_at_cycle
get_retention_at_cycle(s, cycle) ==
    LET curve == SubRetentionCurve(s)
        known_cycles == DOMAIN curve
        last_cycle == SetMax(known_cycles)
        second_last == SetMax(known_cycles \ {last_cycle})
    IN IF cycle \in known_cycles THEN curve[cycle]
       ELSE IF cycle <= 0 THEN ONE
       ELSE IF cycle > last_cycle
            THEN IF curve[second_last] = 0 THEN ZeroDivisionError
                 ELSE MulF(curve[last_cycle],
                           PowF(DivF(curve[last_cycle], curve[second_last]),
                                cycle - last_cycle))
       ELSE LogLinear(curve, cycle)

\* "if retention_prev <= 0: return 0.0; return retention_current /
\* retention_prev"
renewal_ratio(retention_current, retention_prev) ==
    IF retention_prev <= 0 THEN 0
    ELSE DivF(retention_current, retention_prev)

\* The rate of a cycle taken as the retention at that cycle, not as its
\* ratio to the cycle before.
get_renewal_rate_Absolute(plan, cycle) ==
    IF plan.duration_days >= 36500 THEN 0
    ELSE IF cycle <= 0 THEN ONE
    ELSE get_retention_at_cycle(plan.sub_retention, cycle)

\* SubscriptionPlan.get_renewal_rate
get_renewal_rate(plan, cycle) ==
    IF plan.duration_days >= 36500 THEN 0
    ELSE IF cycle <= 0 THEN ONE
    ELSE renewal_ratio(get_retention_at_cycle(plan.sub_retention, cycle),
                       get_retention_at_cycle(plan.sub_retention, cycle - 1))

\* SubscriptionMetrics.get_all_plans
get_all_plans(sub) == <<sub.weekly, sub.monthly, sub.yearly, sub.lifetime>>

-----------------------------------------------------------------------------
(* modules/simulation.py: SimulationParams                                 *)

\* SimulationParams.cpi_paid
cpi_paid(p) ==
    IF p.ctr = 0 \/ p.cvr = 0 THEN Inf
    ELSE DivF(p.cpm, MulF(1000 * p.ctr, p.cvr))

\* SimulationParams.blended_cpi
blended_cpi(p) == MulF(cpi_paid(p), ONE - p.organic_ratio)

\* math.exp(-day / self.decay_half_life)
Decay(p, day) == ExpF(DivF(-day, p.decay_half_life))

\* SimulationParams.get_ecpm_at_day
get_ecpm_at_day(p, day) ==
    IF day <= 0 THEN p.ecpm_d0
    ELSE LET ecpm_sat == MulF(p.ecpm_d0, p.ecpm_saturation_ratio)
         IN ecpm_sat + MulF(p.ecpm_d0 - ecpm_sat, Decay(p, day))

\* SimulationParams.get_impressions_at_day
get_impressions_at_day(p, day) ==
    IF day <= 0 THEN p.impressions_d0
    ELSE LET imp_sat == MulF(p.impressions_d0, p.impressions_saturation_ratio)
         IN imp_sat + MulF(p.impressions_d0 - imp_sat, Decay(p, day))

\* SimulationParams.get_arpdau_at_day
get_arpdau_at_day(p, day) ==
    MulF(get_ecpm_at_day(p, day), get_impressions_at_day(p, day)) \div 1000

-----------------------------------------------------------------------------
(* modules/simulation.py: EnhancedMonteCarloSimulator                      *)

\* The negligible-variation threshold 0.001.
VariationThreshold == 1000

\* EnhancedMonteCarloSimulator._is_deterministic
_is_deterministic(cfg) ==
    LET sim == cfg.simulation
    IN /\ sim.cpm_variation < VariationThreshold
       /\ sim.ctr_variation < VariationThreshold
       /\ sim.cvr_variation < VariationThreshold
       /\ sim.ecpm_variation < VariationThreshold
       /\ sim.retention_variation < VariationThreshold
       /\ sim.pay_rate_variation < VariationThreshold
       /\ sim.sub_ret_variation < VariationThreshold

\* np.random.normal(mean, std) = mean + std * z: the standard normal
\* deviates z a draw ranges over (far below, just below, above the mean).
NormalDraws == {-4000000, -100000, 1000000}

\* np.random.normal(mean, std)
Normal(mean, std) == {mean + MulF(std, z) : z \in NormalDraws}

\* sample_with_variation returning its first draw, whatever the band.
sample_with_variation_Unbounded(mean, variation, min_ratio, max_ratio) ==
    IF variation = 0 \/ variation < VariationThreshold THEN {mean}
    ELSE Normal(mean, MulF(mean, variation))

\* sample_with_variation: the values a call can return; the loop draws
\* until a draw lies in the band, so it returns any draw that does.
sample_with_variation(mean, variation, min_ratio, max_ratio) ==
    IF variation = 0 \/ variation < VariationThreshold THEN {mean}
    ELSE {value \in Normal(mean, MulF(mean, variation)) :
             /\ MulF(mean, min_ratio) <= value
             /\ value <= MulF(mean, max_ratio)}

\* The default band of sample_with_variation and the bands of the three
\* multipliers.
DefaultMinRatio == 300000
DefaultMaxRatio == 2000000

\* The deterministic branch of _sample_params.
sample_params_deterministic(cfg) ==
    [cpm |-> cfg.ua.cpm,
     ctr |-> cfg.ua.ctr,
     cvr |-> cfg.ua.cvr,
     organic_ratio |-> cfg.ua.organic_ratio,
     ecpm_d0 |-> cfg.ads.ecpm_d0,
     impressions_d0 |-> cfg.ads.impressions_per_dau_d0,
     ecpm_saturation_ratio |-> cfg.ads.ecpm_saturation_ratio,
     impressions_saturation_ratio |-> cfg.ads.impressions_saturation_ratio,
     decay_half_life |-> cfg.ads.decay_half_life_days,
     retention_mult |-> ONE,
     pay_rate_mult |-> ONE,
     renewal_mult |-> ONE]

\* The stochastic branch of _sample_params: the parameter sets it can return.
sample_params_stochastic(cfg) ==
    LET sim == cfg.simulation
        avg_variation ==
            (sim.cpm_variation + sim.ctr_variation + sim.cvr_variation) \div 3
        organic_variation == Min(30000, MulF(avg_variation, 500000))
    IN [cpm : sample_with_variation(cfg.ua.cpm, sim.cpm_variation,
                                    DefaultMinRatio, DefaultMaxRatio),
        ctr : sample_with_variation(cfg.ua.ctr, sim.ctr_variation,
                                    DefaultMinRatio, DefaultMaxRatio),
        cvr : sample_with_variation(cfg.ua.cvr, sim.cvr_variation,
                                    DefaultMinRatio, DefaultMaxRatio),
        organic_ratio :
            {Min(800000, Max(50000, cfg.ua.organic_ratio + noise)) :
                noise \in Normal(0, organic_variation)},
        ecpm_d0 : sample_with_variation(cfg.ads.ecpm_d0, sim.ecpm_variation,
                                        DefaultMinRatio, DefaultMaxRatio),
        impressions_d0 :
            sample_with_variation(cfg.ads.impressions_per_dau_d0,
                                  sim.ecpm_variation,
                                  DefaultMinRatio, DefaultMaxRatio),
        ecpm_saturation_ratio : {cfg.ads.ecpm_saturation_ratio},
        impressions_saturation_ratio : {cfg.ads.impressions_saturation_ratio},
        decay_half_life : {cfg.ads.decay_half_life_days},
        retention_mult : sample_with_variation(ONE, sim.retention_variation,
                                               600000, 1500000),
        pay_rate_mult : sample_with_variation(ONE, sim.pay_rate_variation,
                                              500000, 2000000),
        renewal_mult : sample_with_variation(ONE, sim.sub_ret_variation,
                                             970000, 1030000)]

\* The mode test without the subscription-retention coefficient.
sample_is_deterministic_SixOnly(cfg) ==
    LET sim == cfg.simulation
    IN /\ sim.cpm_variation < VariationThreshold
       /\ sim.ctr_variation < VariationThreshold
       /\ sim.cvr_variation < VariationThreshold
       /\ sim.ecpm_variation < VariationThreshold
       /\ sim.retention_variation < VariationThreshold
       /\ sim.pay_rate_variation < VariationThreshold

\* The test "is_deterministic = all([...])" inside _sample_params.
sample_is_deterministic(cfg) ==
    LET sim == cfg.simulation
    IN /\ sim.cpm_variation < VariationThreshold
       /\ sim.ctr_variation < VariationThreshold
       /\ sim.cvr_variation < VariationThreshold
       /\ sim.ecpm_variation < VariationThreshold
       /\ sim.retention_variation < VariationThreshold
       /\ sim.pay_rate_variation < VariationThreshold
       /\ sim.sub_ret_variation < VariationThreshold

\* EnhancedMonteCarloSimulator._sample_params: the parameter sets a call can
\* return.
_sample_params(cfg) ==
    IF sample_is_deterministic(cfg)
    THEN {sample_params_deterministic(cfg)}
    ELSE sample_params_stochastic(cfg)

\* The retention clamp floor 0.0001.
RetentionFloor == 100

\* The retention of a day taken as adjusted, without the clamp.
_get_retention_at_day_Unclamped(cfg, day, retention_mult) ==
    MulF(get_retention_at_day(cfg.retention, day), retention_mult)

\* EnhancedMonteCarloSimulator._get_retention_at_day
_get_retention_at_day(cfg, day, retention_mult) ==
    LET base_rate == get_retention_at_day(cfg.retention, day)
        adjusted == MulF(base_rate, retention_mult)
    IN Min(ONE, Max(RetentionFloor, adjusted))

\* daily_iaa = retention * params.get_arpdau_at_day(day)
daily_iaa(cfg, params, day) ==
    MulF(_get_retention_at_day(cfg, day, params.retention_mult),
         get_arpdau_at_day(params, day))

\* The running sum of daily_iaa over the days lo..hi of a loop
\* "for day in range(days + 1)"; the sum is exact, so it is taken by halves.
RECURSIVE SumIaa(_, _, _, _)
SumIaa(cfg, params, lo, hi) ==
    IF lo > hi THEN 0
    ELSE IF lo = hi THEN daily_iaa(cfg, params, lo)
    ELSE LET mid == (lo + hi) \div 2
         IN SumIaa(cfg, params, lo, mid) + SumIaa(cfg, params, mid + 1, hi)

\* The milestone days of the LTV and ROAS curves.
Milestones ==
    <<0, 1, 3, 7, 14, 21, 30, 45, 60, 90, 120, 150, 180, 210, 240, 270, 300,
      330, 365>>

\* The lifetime sentinel and the cap on renewal cycles.
LifetimeDays == 36500

MaxRenewalCycles == 52

RECURSIVE RenewalLoop(_, _, _, _, _, _, _, _)
\* Iterations first..last of the renewal loop under the test "while
\* next_day <= last_day and cycle <= last_cycle", from the loop's state at
\* its head: loop.events holds the events appended so far. An iteration
\* after the test has failed leaves the state as it is; the later half of
\* the iterations runs from the state the earlier half has left.
RenewalLoop(plan, params, last_day, last_cycle, expected_subscribers, first, last, loop) ==
    IF first = last
    THEN IF loop.next_day <= last_day /\ loop.cycle <= last_cycle
         THEN LET step_renewal_rate ==
                      MulF(get_renewal_rate(plan, loop.cycle),
                           params.renewal_mult)
                  retention ==
                      MulF(loop.current_sub_retention, step_renewal_rate)
                  payment ==
                      MulF(MulF(expected_subscribers, retention), plan.price)
              IN [events |-> Append(loop.events,
                                    [day |-> loop.next_day,
                                     amount |-> payment]),
                  cycle |-> loop.cycle + 1,
                  next_day |-> loop.next_day + plan.duration_days,
                  current_sub_retention |-> retention]
         ELSE loop
    ELSE LET earlier ==
                 RenewalLoop(plan, params, last_day, last_cycle,
                             expected_subscribers, first,
                             (first + last) \div 2, loop)
         IN IF earlier.next_day <= last_day /\ earlier.cycle <= last_cycle
            THEN RenewalLoop(plan, params, last_day, last_cycle,
                             expected_subscribers,
                             (first + last) \div 2 + 1, last, earlier)
            ELSE earlier

\* The renewal loop stopping one day short: "while next_day < days".
RenewalEvents_BeforeHorizon(plan, params, days, cycle, next_day, current_sub_retention, expected_subscribers) ==
    RenewalLoop(plan, params, days - 1, 52, expected_subscribers, 1, 53,
                [events |-> <<>>, cycle |-> cycle, next_day |-> next_day,
                 current_sub_retention |-> current_sub_retention]).events

\* The renewal loop stopping one cycle early: "cycle < 52".
RenewalEvents_CappedEarly(plan, params, days, cycle, next_day, current_sub_retention, expected_subscribers) ==
    RenewalLoop(plan, params, days, 51, expected_subscribers, 1, 53,
                [events |-> <<>>, cycle |-> cycle, next_day |-> next_day,
                 current_sub_retention |-> current_sub_retention]).events

\* The renewal loop "while next_day <= days and cycle <= 52" of one plan: the
\* events it appends, from the loop's state at its head. The cycle counts
\* from 1 or more, so the test has failed after MaxRenewalCycles + 1
\* iterations at the latest.
RenewalEvents(plan, params, days, cycle, next_day, current_sub_retention, expected_subscribers) ==
    RenewalLoop(plan, params, days, MaxRenewalCycles, expected_subscribers,
                1, MaxRenewalCycles + 1,
                [events |-> <<>>, cycle |-> cycle, next_day |-> next_day,
                 current_sub_retention |-> current_sub_retention]).events

\* The body of the loop over the plans without the test
\* "if plan.duration_days < 36500".
PlanEvents_AlwaysRenew(plan, params, days, exploitation_day) ==
    LET effective_pay_rate == MulF(plan.pay_rate, params.pay_rate_mult)
        expected_subscribers ==
            IF plan.has_trial
            THEN MulF(effective_pay_rate, plan.trial_to_paid_rate)
            ELSE effective_pay_rate
        first_day ==
            exploitation_day + (IF plan.has_trial THEN plan.trial_days ELSE 0)
        payment == MulF(MulF(expected_subscribers, ONE), plan.price)
    IN IF first_day <= days
       THEN <<[day |-> first_day, amount |-> payment]>>
            \o RenewalEvents(plan, params, days, 1,
                             first_day + plan.duration_days, ONE,
                             expected_subscribers)
       ELSE <<>>

\* The body of the loop over the plans without the test
\* "if first_day <= days".
PlanEvents_NoCutoff(plan, params, days, exploitation_day) ==
    LET effective_pay_rate == MulF(plan.pay_rate, params.pay_rate_mult)
        expected_subscribers ==
            IF plan.has_trial
            THEN MulF(effective_pay_rate, plan.trial_to_paid_rate)
            ELSE effective_pay_rate
        first_day ==
            exploitation_day + (IF plan.has_trial THEN plan.trial_days ELSE 0)
        payment == MulF(MulF(expected_subscribers, ONE), plan.price)
    IN <<[day |-> first_day, amount |-> payment]>>

\* The body of "for plan in cfg.subscription.get_all_plans()": the events one
\* plan appends to iap_events.
PlanEvents(plan, params, days, exploitation_day) ==
    LET effective_pay_rate == MulF(plan.pay_rate, params.pay_rate_mult)
        expected_subscribers ==
            IF plan.has_trial
            THEN MulF(effective_pay_rate, plan.trial_to_paid_rate)
            ELSE effective_pay_rate
        first_day ==
            exploitation_day + (IF plan.has_trial THEN plan.trial_days ELSE 0)
        payment == MulF(MulF(expected_subscribers, ONE), plan.price)
    IN IF first_day <= days
       THEN <<[day |-> first_day, amount |-> payment]>>
            \o (IF plan.duration_days < LifetimeDays
                THEN RenewalEvents(plan, params, days, 1,
                                   first_day + plan.duration_days, ONE,
                                   expected_subscribers)
                ELSE <<>>)
       ELSE <<>>

\* iap_events after the loop over the plans, in the order appended.
RECURSIVE AllPlanEvents(_, _, _, _, _)
AllPlanEvents(plans, i, params, days, exploitation_day) ==
    IF i > Len(plans) THEN <<>>
    ELSE PlanEvents(plans[i], params, days, exploitation_day)
         \o AllPlanEvents(plans, i + 1, params, days, exploitation_day)

\* iap_events of the deterministic branch.
iap_events_deterministic(cfg, params, days) ==
    AllPlanEvents(get_all_plans(cfg.subscription), 1, params, days,
                  cfg.subscription.exploitation_start_day)

\* iap_events of the stochastic branch (the same code, written again).
iap_events_stochastic(cfg, params, days) ==
    AllPlanEvents(get_all_plans(cfg.subscription), 1, params, days,
                  cfg.subscription.exploitation_start_day)

\* list.sort(key=lambda x: x[0]): a stable sort by day.  The events with a
\* day in lo..hi, sorted: those of the lower half of the days, then those of
\* the upper half, each in the order they had.
RECURSIVE SortDays(_, _, _)
SortDays(events, lo, hi) ==
    IF Len(events) <= 1 \/ lo >= hi THEN events
    ELSE LET mid == (lo + hi) \div 2
             Lower(e) == e.day <= mid
             Upper(e) == e.day > mid
         IN SortDays(SelectSeq(events, Lower), lo, mid)
            \o SortDays(SelectSeq(events, Upper), mid + 1, hi)

SortByDay(events) ==
    IF events = <<>> THEN events
    ELSE LET days == {events[i].day : i \in 1..Len(events)}
         IN SortDays(events, SetMin(days), SetMax(days))

\* sum(e[1] for e in iap_events), over events[lo..hi]; the sum is exact, so
\* it is taken by halves.
RECURSIVE SumAmounts(_, _, _)
SumAmounts(events, lo, hi) ==
    IF lo > hi THEN 0
    ELSE IF lo = hi THEN events[lo].amount
    ELSE LET mid == (lo + hi) \div 2
         IN SumAmounts(events, lo, mid) + SumAmounts(events, mid + 1, hi)

\* A net revenue multiplier that ignores the configured fee.
net_revenue_mult_NoFee(cfg) == ONE

\* net_revenue_mult = 1 - cfg.subscription.platform_fee_rate
net_revenue_mult(cfg) == ONE - cfg.subscription.platform_fee_rate

\* "while event_idx < len(iap_events) and <test>: cumulative_iap += ...;
\* event_idx += 1": the loop's state after it, from its state at its head.
\* The deterministic branch tests event day <= milestone.
RECURSIVE TakeEventsUpTo(_, _, _, _, _)
TakeEventsUpTo(events, mult, milestone, event_idx, cumulative_iap) ==
    IF event_idx < Len(events) /\ events[event_idx + 1].day <= milestone
    THEN TakeEventsUpTo(events, mult, milestone, event_idx + 1,
                        cumulative_iap + MulF(events[event_idx + 1].amount, mult))
    ELSE [event_idx |-> event_idx, cumulative_iap |-> cumulative_iap]

\* The stochastic branch taking one event a day at most: "if" for "while".
TakeEventsOn_OneADay(events, mult, day, event_idx, daily_iap) ==
    IF event_idx < Len(events) /\ events[event_idx + 1].day = day
    THEN [event_idx |-> event_idx + 1,
          daily_iap |-> daily_iap + MulF(events[event_idx + 1].amount, mult)]
    ELSE [event_idx |-> event_idx, daily_iap |-> daily_iap]

\* The stochastic branch tests event day == day.
RECURSIVE TakeEventsOn(_, _, _, _, _)
TakeEventsOn(events, mult, day, event_idx, daily_iap) ==
    IF event_idx < Len(events) /\ events[event_idx + 1].day = day
    THEN TakeEventsOn(events, mult, day, event_idx + 1,
                      daily_iap + MulF(events[event_idx + 1].amount, mult))
    ELSE [event_idx |-> event_idx, daily_iap |-> daily_iap]

\* Deterministic branch: cumulative_at_milestone after both loops, for the
\* milestones from index i on; iaa is recorded only on the days the day loop
\* reaches.
RECURSIVE MilestoneTable(_, _, _, _, _, _, _, _)

\* The entry of milestone i and those after it; iaa is cumulative_iaa when
\* the day loop has passed the milestone, took the event loop's state.
MilestoneEntry(cfg, params, days, events, i, iaa, took) ==
    <<[day |-> Milestones[i],
       iaa |-> IF Milestones[i] <= days THEN iaa ELSE 0,
       iap |-> took.cumulative_iap]>>
    \o MilestoneTable(cfg, params, days, events, i + 1, iaa,
                      took.event_idx, took.cumulative_iap)

MilestoneTable(cfg, params, days, events, i, cumulative_iaa, event_idx, cumulative_iap) ==
    IF i > Len(Milestones) THEN <<>>
    ELSE LET m == Milestones[i]
             from == IF i = 1 THEN 0 ELSE Milestones[i - 1] + 1
         IN MilestoneEntry(cfg, params, days, events, i,
                           cumulative_iaa
                              + SumIaa(cfg, params, from, Min(m, days)),
                           TakeEventsUpTo(events, net_revenue_mult(cfg), m,
                                          event_idx, cumulative_iap))

\* Deterministic branch: daily_breakdown, one entry per milestone <= days.
MilestoneBreakdown(table, days) ==
    LET kept == {i \in 1..Len(table) : table[i].day <= days}
    IN [i \in 1..Cardinality(kept) |->
          [day |-> table[i].day,
           cumulative_iaa |-> table[i].iaa,
           cumulative_iap |-> table[i].iap,
           cumulative_total |-> table[i].iaa + table[i].iap]]

\* Stochastic branch: daily_breakdown for the days lo..hi (the fields the
\* driver reads), with the loop's state after them; the loop is split by
\* halves, each half run from the state the one before it left.
\* One day of the loop: the entry it appends and the state it leaves, iaa
\* and iap being the two cumulative sums after the day.
DayEntry(day, iaa, iap, event_idx) ==
    [entries |-> <<[day |-> day,
                    cumulative_iaa |-> iaa,
                    cumulative_iap |-> iap,
                    cumulative_total |-> iaa + iap]>>,
     cumulative_iaa |-> iaa,
     event_idx |-> event_idx,
     cumulative_iap |-> iap]

\* The day's events taken, took being the event loop's state after them.
DayTaken(day, iaa, cumulative_iap, took) ==
    DayEntry(day, iaa, cumulative_iap + took.daily_iap, took.event_idx)

RECURSIVE DailyBreakdown(_, _, _, _, _, _, _, _)
DailyBreakdown(cfg, params, events, lo, hi, cumulative_iaa, event_idx, cumulative_iap) ==
    IF lo = hi
    THEN DayTaken(lo, cumulative_iaa + daily_iaa(cfg, params, lo),
                  cumulative_iap,
                  TakeEventsOn(events, net_revenue_mult(cfg), lo,
                               event_idx, 0))
    ELSE LET mid == (lo + hi) \div 2
             left == DailyBreakdown(cfg, params, events, lo, mid,
                                    cumulative_iaa, event_idx, cumulative_iap)
             right == DailyBreakdown(cfg, params, events, mid + 1, hi,
                                     left.cumulative_iaa, left.event_idx,
                                     left.cumulative_iap)
         IN [entries |-> left.entries \o right.entries,
             cumulative_iaa |-> right.cumulative_iaa,
             event_idx |-> right.event_idx,
             cumulative_iap |-> right.cumulative_iap]

\* The dictionary both branches return; iap_events, a local of the call, is
\* kept beside it.
ltv_result(params, ltv_iaa, ltv_iap, daily_breakdown, iap_events) ==
    [ltv_iaa |-> ltv_iaa,
     ltv_iap |-> ltv_iap,
     ltv_total |-> ltv_iaa + ltv_iap,
     blended_cpi |-> blended_cpi(params),
     cpi_paid |-> cpi_paid(params),
     daily_breakdown |-> daily_breakdown,
     iap_events |-> iap_events]

\* The deterministic branch from "net_revenue_mult = ..." on, iap_events
\* being sorted.
ltv_deterministic_result(cfg, params, days, ltv_iaa, iap_events) ==
    ltv_result(params, ltv_iaa,
               MulF(SumAmounts(iap_events, 1, Len(iap_events)),
                    net_revenue_mult(cfg)),
               MilestoneBreakdown(
                   MilestoneTable(cfg, params, days, iap_events, 1, 0, 0, 0),
                   days),
               iap_events)

\* The deterministic branch of _calculate_ltv.
calculate_ltv_deterministic(cfg, params, days) ==
    ltv_deterministic_result(
        cfg, params, days, SumIaa(cfg, params, 0, days),
        SortByDay(iap_events_deterministic(cfg, params, days)))

\* The stochastic branch from "breakdown = []" on, iap_events being sorted.
ltv_stochastic_breakdown(cfg, params, days, ltv_iaa, ltv_iap, iap_events) ==
    ltv_result(params, ltv_iaa, ltv_iap,
               IF days >= 0
               THEN DailyBreakdown(cfg, params, iap_events, 0, days,
                                   0, 0, 0).entries
               ELSE <<>>,
               iap_events)

\* The stochastic branch from "gross_iap = ..." on, iap_events being as the
\* loop over the plans left it.
ltv_stochastic_result(cfg, params, days, ltv_iaa, iap_events) ==
    ltv_stochastic_breakdown(
        cfg, params, days, ltv_iaa,
        MulF(SumAmounts(iap_events, 1, Len(iap_events)),
             net_revenue_mult(cfg)),
        SortByDay(iap_events))

\* The stochastic branch of _calculate_ltv.
calculate_ltv_stochastic(cfg, params, days) ==
    ltv_stochastic_result(cfg, params, days, SumIaa(cfg, params, 0, days),
                          iap_events_stochastic(cfg, params, days))

\* EnhancedMonteCarloSimulator._calculate_ltv; iap_events, a local of the
\* call, is kept beside the returned dictionary.
_calculate_ltv(cfg, params, days) ==
    IF _is_deterministic(cfg)
    THEN calculate_ltv_deterministic(cfg, params, days)
    ELSE calculate_ltv_stochastic(cfg, params, days)

-----------------------------------------------------------------------------
(* modules/simulation.py: EnhancedMonteCarloSimulator.run                  *)

\* "blended_cpi > 0 and blended_cpi != float('inf')"; a comparison with nan
\* is false.
cpi_usable(cpi) ==
    cpi # NaN /\ cpi > 0 /\ cpi # Inf

\* roas with the quotient inverted.
scenario_roas_Inverted(ltv_total, cpi) ==
    IF cpi_usable(cpi) /\ ltv_total # 0 THEN DivF(cpi, ltv_total) ELSE 0

\* roas = ltv_total / blended_cpi if <usable> else 0
scenario_roas(ltv_total, cpi) ==
    IF cpi_usable(cpi) THEN DivF(ltv_total, cpi) ELSE 0

\* The lookup reading the ad revenue alone: entry['cumulative_iaa'].
cumulative_ltv_at_AdsOnly(daily_breakdown, milestone) ==
    LET before == {i \in 1..Len(daily_breakdown) :
                      /\ daily_breakdown[i].day >= 0
                      /\ daily_breakdown[i].day <= milestone}
    IN IF before = {} THEN 0
       ELSE LET closest_day == SetMax({daily_breakdown[i].day : i \in before})
                last == SetMax({i \in before :
                                   daily_breakdown[i].day = closest_day})
            IN daily_breakdown[last].cumulative_iaa

\* breakdown_by_day[closest day <= milestone], 0 when there is none
cumulative_ltv_at(daily_breakdown, milestone) ==
    LET before == {i \in 1..Len(daily_breakdown) :
                      /\ daily_breakdown[i].day >= 0
                      /\ daily_breakdown[i].day <= milestone}
    IN IF before = {} THEN 0
       ELSE LET closest_day == SetMax({daily_breakdown[i].day : i \in before})
                last == SetMax({i \in before :
                                   daily_breakdown[i].day = closest_day})
            IN daily_breakdown[last].cumulative_total

\* roas_curve, one value per milestone (the keys d0, d1, d3, ...).
scenario_roas_curve(daily_breakdown, cpi) ==
    [k \in 1..Len(Milestones) |->
        IF cpi_usable(cpi)
        THEN DivF(cumulative_ltv_at(daily_breakdown, Milestones[k]), cpi)
        ELSE 0]

\* self.results.append({...}), result being what _calculate_ltv returned.
scenario_entry(params, result) ==
    LET roas == scenario_roas(result.ltv_total, result.blended_cpi)
    IN [blended_cpi |-> result.blended_cpi,
        cpi_paid |-> result.cpi_paid,
        ltv_total |-> result.ltv_total,
        ltv_iaa |-> result.ltv_iaa,
        ltv_iap |-> result.ltv_iap,
        roas |-> roas,
        roas_curve |-> scenario_roas_curve(result.daily_breakdown,
                                           result.blended_cpi),
        organic_ratio |-> params.organic_ratio,
        ecpm_d0 |-> params.ecpm_d0,
        retention_mult |-> params.retention_mult,
        profitable |-> roas >= ONE]

\* The dictionary one iteration of run() appends to self.results.
scenario(cfg, params, days) ==
    scenario_entry(params, _calculate_ltv(cfg, params, days))

-----------------------------------------------------------------------------
(* modules/simulation.py: _calculate_statistics (arrays of finite values)  *)

RECURSIVE SumSeq(_, _, _)
SumSeq(arr, lo, hi) ==
    IF lo > hi THEN 0
    ELSE IF lo = hi THEN arr[lo]
    ELSE LET mid == (lo + hi) \div 2
         IN SumSeq(arr, lo, mid) + SumSeq(arr, mid + 1, hi)

\* x / n for a count n.
DivCount(x, n) == Sgn(x) * (Abs(x) \div n)

\* The k-th element of arr as it stands, unsorted.
KthSmallest_InPlace(arr, k) == arr[k]

\* The k-th smallest element of arr, k in 1..Len(arr).
KthSmallest(arr, k) ==
    CHOOSE v \in {arr[i] : i \in 1..Len(arr)} :
        /\ Cardinality({i \in 1..Len(arr) : arr[i] < v}) < k
        /\ k <= Cardinality({i \in 1..Len(arr) : arr[i] <= v})

\* The sum left undivided.
np_mean_Sum(arr) == SumSeq(arr, 1, Len(arr))

\* np.mean
np_mean(arr) == DivCount(SumSeq(arr, 1, Len(arr)), Len(arr))

\* np.median: the middle element, or the mean of the two middle ones.
np_median(arr) ==
    LET n == Len(arr)
    IN IF n % 2 = 1 THEN KthSmallest(arr, (n + 1) \div 2)
       ELSE DivCount(KthSmallest(arr, n \div 2)
                        + KthSmallest(arr, n \div 2 + 1), 2)

\* y * y as quotient and remainder by ONE, for 0 <= y < 46000 * 1000.
SquareParts(y) ==
    LET a == y \div 1000
        b == y % 1000
        c == 2 * a * b
        low == (c % 1000) * 1000 + b * b
    IN [q |-> a * a + c \div 1000 + low \div ONE, r |-> low % ONE]

\* math.sqrt: the largest y with y * y <= x, by bisection.
RECURSIVE SqrtSearch(_, _, _)
SqrtSearch(x, lo, hi) ==
    IF lo >= hi THEN lo
    ELSE LET mid == (lo + hi + 1) \div 2
             sq == SquareParts(mid)
         IN IF sq.q < x \/ (sq.q = x /\ sq.r = 0)
            THEN SqrtSearch(x, mid, hi)
            ELSE SqrtSearch(x, lo, mid - 1)

SqrtF(x) == SqrtSearch(x, 0, Min(Max(x, ONE), 46000000))

\* np.std: sqrt(mean(abs(x - mean) ** 2))
np_std(arr) ==
    LET mean == np_mean(arr)
        squares == [i \in 1..Len(arr) |-> MulF(arr[i] - mean, arr[i] - mean)]
    IN SqrtF(np_mean(squares))

\* np.percentile with the index counted from the largest element.
np_percentile_FromTop(arr, q) ==
    LET n == Len(arr)
        previous == ((n - 1) * (100 - q)) \div 100
        gamma == (((n - 1) * (100 - q)) % 100) * (ONE \div 100)
        a == KthSmallest(arr, previous + 1)
        b == KthSmallest(arr, Min(previous + 2, n))
    IN IF gamma >= ONE \div 2 THEN b - MulF(b - a, ONE - gamma)
       ELSE a + MulF(b - a, gamma)

\* np.percentile(arr, q), linear interpolation between the two order
\* statistics around the index (n - 1) * q / 100.
np_percentile(arr, q) ==
    LET n == Len(arr)
        previous == ((n - 1) * q) \div 100
        gamma == (((n - 1) * q) % 100) * (ONE \div 100)
        a == KthSmallest(arr, previous + 1)
        b == KthSmallest(arr, Min(previous + 2, n))
    IN IF gamma >= ONE \div 2 THEN b - MulF(b - a, ONE - gamma)
       ELSE a + MulF(b - a, gamma)

\* calc_stats
calc_stats(arr) ==
    [mean |-> np_mean(arr),
     median |-> np_median(arr),
     std |-> np_std(arr),
     p5 |-> np_percentile(arr, 5),
     p25 |-> np_percentile(arr, 25),
     p50 |-> np_percentile(arr, 50),
     p75 |-> np_percentile(arr, 75),
     p95 |-> np_percentile(arr, 95),
     min |-> KthSmallest(arr, 1),
     max |-> KthSmallest(arr, Len(arr))]

\* float(np.mean([1 if <test> else 0 for r in roas_values]))
Share(flags) ==
    DivCount(F(Cardinality({i \in 1..Len(flags) : flags[i]})), Len(flags))

\* The filter with 1.0 taken for the sentinel of an undefined CPI.
Not_inf_BelowOne(r) == r.blended_cpi < ONE

\* "if r['blended_cpi'] != float('inf')"
Not_inf(r) == r.blended_cpi # Inf

\* EnhancedMonteCarloSimulator._calculate_statistics; {} is the empty
\* function <<>>.
_calculate_statistics(cfg, n, res) ==
    IF res = <<>> THEN <<>>
    ELSE LET roas_values == [i \in 1..Len(res) |-> res[i].roas]
             finite_cpi == SelectSeq(res, Not_inf)
             cpi_values ==
                [i \in 1..Len(finite_cpi) |-> finite_cpi[i].blended_cpi]
         IN [n_simulations |-> n,
             days |-> cfg.simulation_days,
             roas |-> calc_stats(roas_values),
             ltv_total |-> calc_stats([i \in 1..Len(res) |-> res[i].ltv_total]),
             ltv_iaa |-> calc_stats([i \in 1..Len(res) |-> res[i].ltv_iaa]),
             ltv_iap |-> calc_stats([i \in 1..Len(res) |-> res[i].ltv_iap]),
             cpi |-> IF Len(cpi_values) > 0 THEN calc_stats(cpi_values)
                     ELSE <<>>,
             risk |->
                [probability_profitable |->
                    Share([i \in 1..Len(res) |-> roas_values[i] >= ONE]),
                 probability_roas_below_50pct |->
                    Share([i \in 1..Len(res) |-> roas_values[i] < ONE \div 2]),
                 value_at_risk_95 |->
                    np_percentile([i \in 1..Len(res) |-> ONE - roas_values[i]],
                                  95)]]

\* The results lists a call run(days) can leave in self.results: one
\* scenario per sampled parameter set, n of them.
RunResults(cfg, n, days) ==
    {[i \in 1..n |-> scenario(cfg, ps[i], days)] :
        ps \in [1..n -> _sample_params(cfg)]}

\* A call that ends with an exception, as its result.
RaisedError(name) == [raised |-> name]
HasRaised(r) == DOMAIN r = {"raised"}

\* The values get_confidence_interval takes its percentiles of:
\* "[r[metric] for r in self.results if r.get(metric, 0) != float('inf')]"
metric_values(res, metric) ==
    LET Finite(r) == r[metric] # Inf
        kept == SelectSeq(res, Finite)
    IN [i \in 1..Len(kept) |-> kept[i][metric]]

\* The tuple (low, high) get_confidence_interval returns.
Interval(low, high) == [low |-> low, high |-> high]

\* The two percentiles of get_confidence_interval; the confidence is in
\* percent, alpha * 100 = (100 - confidence) / 2.  np.percentile of an empty
\* array is nan or an IndexError, depending on the numpy installed.
confidence_percentiles(values, confidence) ==
    IF values = <<>>
    THEN {Interval(NaN, NaN), RaisedError("IndexError")}
    ELSE {Interval(np_percentile(values, (100 - confidence) \div 2),
                   np_percentile(values, 100 - (100 - confidence) \div 2))}

\* EnhancedMonteCarloSimulator.get_confidence_interval: the results a call
\* can have.
get_confidence_interval(res, metric, confidence) ==
    IF res = <<>> THEN {Interval(0, 0)}
    ELSE confidence_percentiles(metric_values(res, metric), confidence)

\* round(x, ndigits) for a multiple unit of 10^-6 (100 for four digits,
\* 10000 for two): to the nearest multiple, a tie to the even one.
RoundTo(x, unit) ==
    LET q == x \div unit
        r == x % unit
    IN IF ~IsFinite(x) THEN x
       ELSE IF 2 * r > unit \/ (2 * r = unit /\ q % 2 = 1)
            THEN (q + 1) * unit
       ELSE q * unit

\* generate_targets: the entry 'ltv_total' of the returned dictionary.
targets_ltv_total(st) ==
    [pessimistic |-> RoundTo(st.ltv_total.p5, 100),
     expected |-> RoundTo(st.ltv_total.mean, 100),
     optimistic |-> RoundTo(st.ltv_total.p95, 100)]

\* generate_targets: the entry 'roas' of the returned dictionary.
targets_roas(st) ==
    [pessimistic |-> RoundTo(st.roas.p5, 100),
     safe |-> RoundTo(st.roas.p25, 100),
     expected |-> RoundTo(st.roas.p50, 100),
     breakthrough |-> RoundTo(st.roas.p75, 100),
     optimistic |-> RoundTo(st.roas.p95, 100)]

\* generate_targets: the entry 'cpi'; "if stats.get('cpi') else 0".
targets_cpi(st) ==
    IF st.cpi = <<>>
    THEN [max_safe |-> 0, expected |-> 0, ideal |-> 0]
    ELSE [max_safe |-> RoundTo(st.cpi.p75, 10000),
          expected |-> RoundTo(st.cpi.mean, 10000),
          ideal |-> RoundTo(st.cpi.p25, 10000)]

\* TargetKPIGenerator.generate_targets from "stats = ..." on: the returned
\* dictionary; stats['roas'] of an empty dictionary is a KeyError.
targets_of(st) ==
    IF st = <<>> THEN RaisedError("KeyError")
    ELSE [roas |-> targets_roas(st),
          ltv_total |-> targets_ltv_total(st),
          ltv_breakdown |->
             [iaa_mean |-> RoundTo(st.ltv_iaa.mean, 100),
              iap_mean |-> RoundTo(st.ltv_iap.mean, 100),
              iaa_ratio |->
                 RoundTo(DivF(st.ltv_iaa.mean, Max(st.ltv_total.mean, 1000)),
                         100)],
          cpi |-> targets_cpi(st),
          probability_profitable |->
             RoundTo(st.risk.probability_profitable, 100),
          simulation_info |->
             [n_simulations |-> st.n_simulations, days |-> st.days]]

-----------------------------------------------------------------------------
(* Calls of the pure functions: call holds the call, ret what it returned. *)

NoCall == [op |-> "none"]

\* SubscriptionMetrics.get_all_plans, by name
PlanNames == <<"weekly", "monthly", "yearly", "lifetime">>

-----------------------------------------------------------------------------
(* Specification of the two interpolators                                  *)

MaxQueryDay == 367
MaxQueryCycle == 54

RetentionFields ==
    <<"d0", "d1", "d3", "d7", "d14", "d30", "d60", "d90", "d180", "d365">>
SubRetentionFields ==
    <<"cycle_0", "cycle_1", "cycle_2", "cycle_3", "cycle_4", "cycle_5",
      "cycle_6", "cycle_8", "cycle_12", "cycle_24", "cycle_52">>

\* Rates a curve is configured with: zero, below the log floor, the floor,
\* and ordinary rates.
CurveValues == {0, 500, 1000, 50000, 500000, 1000000}

\* The default configuration with two adjacent anchors of the calendar curve
\* and of the weekly plan's curve set to v1, v2.
CurveConfig(i, v1, v2) ==
    LET j == Min(i, Len(RetentionFields) - 1)
    IN [AppConfig EXCEPT
          !.retention[RetentionFields[j]] = v1,
          !.retention[RetentionFields[j + 1]] = v2,
          !.subscription.weekly.sub_retention[SubRetentionFields[i]] = v1,
          !.subscription.weekly.sub_retention[SubRetentionFields[i + 1]] = v2]

InitInterp ==
    /\ \E i \in 1..(Len(SubRetentionFields) - 1) :
         \E v1 \in CurveValues : \E v2 \in CurveValues :
            config = CurveConfig(i, v1, v2)
    /\ n_simulations = 1
    /\ results = <<>>
    /\ stats = <<>>
    /\ run_days = 0
    /\ pc = "idle"
    /\ call = NoCall
    /\ ret = 0

QueryDay ==
    /\ pc = "idle"
    /\ \E day \in -2..MaxQueryDay :
         /\ call' = [op |-> "get_retention_at_day", day |-> day]
         /\ ret' = get_retention_at_day(config.retention, day)
    /\ pc' = "returned"
    /\ UNCHANGED <<config, n_simulations, results, stats, run_days>>

QueryCycle ==
    /\ pc = "idle"
    /\ \E plan \in {"weekly", "yearly"} : \E cycle \in -2..MaxQueryCycle :
         /\ call' = [op |-> "get_retention_at_cycle", plan |-> plan,
                     cycle |-> cycle]
         /\ ret' = get_retention_at_cycle(
                      config.subscription[plan].sub_retention, cycle)
    /\ pc' = "returned"
    /\ UNCHANGED <<config, n_simulations, results, stats, run_days>>

\* The caller takes the result; the next call starts afresh.
Return ==
    /\ pc = "returned"
    /\ pc' = "idle"
    /\ call' = NoCall
    /\ ret' = 0
    /\ UNCHANGED <<config, n_simulations, results, stats, run_days>>

NextInterp == QueryDay \/ QueryCycle \/ Return

SpecInterp == InitInterp /\ [][NextInterp]_vars

-----------------------------------------------------------------------------
(* Specification of the parameter sampler                                  *)

VariationFields ==
    <<"cpm_variation", "ctr_variation", "cvr_variation", "ecpm_variation",
      "retention_variation", "pay_rate_variation", "sub_ret_variation">>

\* A variation coefficient: none, just below the threshold, the threshold,
\* and the configured default (when "default").
VariationValues == {0, 999, 1000}

NoVariation ==
    [DefaultSimulation EXCEPT
        !.cpm_variation = 0, !.ctr_variation = 0, !.cvr_variation = 0,
        !.ecpm_variation = 0, !.retention_variation = 0,
        !.pay_rate_variation = 0, !.sub_ret_variation = 0]

\* Configurations of the sampler: the default one, and those with one
\* coefficient set and the six others at zero.
SampleConfigs ==
    {[AppConfig EXCEPT !.ua.organic_ratio = o] : o \in {60000, 300000, 790000}}
    \cup UNION {
            {[AppConfig EXCEPT
                !.simulation = [NoVariation EXCEPT ![VariationFields[i]] = v]] :
             v \in VariationValues
                    \cup {DefaultSimulation[VariationFields[i]]}} :
            i \in 1..Len(VariationFields)}

InitSample ==
    /\ config \in SampleConfigs
    /\ n_simulations = 1
    /\ results = <<>>
    /\ stats = <<>>
    /\ run_days = 0
    /\ pc = "idle"
    /\ call = NoCall
    /\ ret = 0

Sample ==
    /\ pc = "idle"
    /\ call' = [op |-> "_sample_params",
                deterministic |-> sample_is_deterministic(config)]
    /\ ret' \in _sample_params(config)
    /\ pc' = "returned"
    /\ UNCHANGED <<config, n_simulations, results, stats, run_days>>

NextSample == Sample \/ Return

SpecSample == InitSample /\ [][NextSample]_vars

-----------------------------------------------------------------------------
(* Specification of the cohort LTV accumulator                             *)

\* Horizons far above a year: the one the lifetime plan is tested with, and
\* one that reaches the no-renewal sentinel.
FarHorizon == 3650
LongHorizon == 36500

ShortHorizons == {0, 9, 12, 14, 30}

\* A year, and the 52 weeks within it.
YearHorizons == {364, 365}

\* The four plans as configured by default; the weekly plan alone, without
\* trial; the weekly plan with the no-renewal duration; the weekly plan
\* alone, without trial, nobody retained at the third renewal.
PlanProfiles == {"default", "weekly_only", "weekly_no_renewal", "weekly_lapsed"}

LtvSubscription(profile, start_day, fee) ==
    LET base == [DefaultSubscription EXCEPT
                    !.exploitation_start_day = start_day,
                    !.platform_fee_rate = fee]
    IN CASE profile = "default" -> base
         [] profile = "weekly_only" ->
                [base EXCEPT !.weekly.has_trial = FALSE,
                             !.monthly.pay_rate = 0,
                             !.yearly.pay_rate = 0,
                             !.lifetime.pay_rate = 0]
         [] profile = "weekly_no_renewal" ->
                [base EXCEPT !.weekly.duration_days = 36500]
         [] profile = "weekly_lapsed" ->
                [base EXCEPT !.weekly.has_trial = FALSE,
                             !.weekly.sub_retention.cycle_3 = 0,
                             !.monthly.pay_rate = 0,
                             !.yearly.pay_rate = 0,
                             !.lifetime.pay_rate = 0]

\* Pay-rate and renewal variation only: two parameter sets per configuration.
SubscriptionVariation ==
    [NoVariation EXCEPT !.pay_rate_variation = 300000,
                        !.sub_ret_variation = 200000]

LtvConfigs ==
    {[AppConfig EXCEPT
        !.subscription = LtvSubscription(profile, start_day, fee),
        !.simulation = sim] :
     profile \in PlanProfiles, start_day \in {0, 10}, fee \in {0, 300000},
     sim \in {NoVariation, SubscriptionVariation}}

\* The default plans from day 0 with the default fee.
IsDefaultSubscription(cfg) == cfg.subscription = DefaultSubscription

\* Subscriptions sold from day 0 under the default fee.
StartsAtOnceWithFee(cfg) ==
    /\ cfg.subscription.exploitation_start_day = 0
    /\ cfg.subscription.platform_fee_rate = 300000

InitLtv ==
    /\ config \in LtvConfigs
    /\ n_simulations = 1
    /\ results = <<>>
    /\ stats = <<>>
    /\ run_days = 0
    /\ pc = "idle"
    /\ call = NoCall
    /\ ret = 0

\* A call self._calculate_ltv(params, days) with sampled parameters.
CalculateLtv ==
    /\ pc = "idle"
    /\ \E days \in ShortHorizons \cup YearHorizons
                     \cup {FarHorizon, LongHorizon} :
       \E params \in _sample_params(config) :
          /\ days \in YearHorizons => StartsAtOnceWithFee(config)
          /\ days = FarHorizon => IsDefaultSubscription(config)
          /\ days = LongHorizon =>
                IsDefaultSubscription(config) /\ _is_deterministic(config)
          /\ call' = [op |-> "_calculate_ltv", params |-> params, days |-> days]
          /\ ret' = _calculate_ltv(config, params, days)
    /\ pc' = "returned"
    /\ UNCHANGED <<config, n_simulations, results, stats, run_days>>

NextLtv == CalculateLtv \/ Return

SpecLtv == InitLtv /\ [][NextLtv]_vars

-----------------------------------------------------------------------------
(* Specification of the simulation driver                                  *)

\* The largest scenario count of a simulator.
MaxSimulations == 2

\* run(days): 0 stands for a call without days (None is falsy, as 0 is).
RunDays == {0, 7, 20}

\* Click-through variation only: the sampled ctr and the organic noise vary.
UaVariation == [NoVariation EXCEPT !.ctr_variation = 200000]

DriverBase ==
    [AppConfig EXCEPT !.simulation_days = 14,
                      !.simulation = [NoVariation EXCEPT
                                         !.n_simulations = MaxSimulations]]

\* Deterministic and stochastic configurations, with and without clicks
\* (a ctr of zero gives an infinite CPI), with and without organic users
\* (the organic ratio sampled around 0.95 is clamped to 0.8, so the sampled
\* ctr alone varies), and one configured with no scenario at all.
DriverConfigs ==
    {DriverBase,
     [DriverBase EXCEPT !.simulation.n_simulations = 0],
     [DriverBase EXCEPT !.ua.ctr = 0],
     [DriverBase EXCEPT !.ua.organic_ratio = 0],
     [DriverBase EXCEPT !.ua.organic_ratio = 950000,
                        !.simulation = [UaVariation EXCEPT
                                           !.n_simulations = MaxSimulations]],
     [DriverBase EXCEPT !.ua.ctr = 0,
                        !.simulation = [UaVariation EXCEPT
                                           !.n_simulations = MaxSimulations]]}

\* EnhancedMonteCarloSimulator(config, n_simulations); 0 stands for a
\* construction without n_simulations.
Init ==
    /\ config \in DriverConfigs
    /\ \E n \in 0..MaxSimulations :
          n_simulations = IF n = 0 THEN config.simulation.n_simulations ELSE n
    /\ results = <<>>
    /\ stats = <<>>
    /\ run_days = 0
    /\ pc = "idle"
    /\ call = NoCall
    /\ ret = 0

\* run(days) keeping the results of the run before.
RunStart_Accumulate ==
    /\ pc \in {"idle", "done"}
    /\ \E days \in RunDays :
          run_days' = IF days = 0 THEN config.simulation_days ELSE days
    /\ results' = results
    /\ stats' = <<>>
    /\ pc' = "running"
    /\ call' = NoCall
    /\ ret' = 0
    /\ UNCHANGED <<config, n_simulations>>

\* run(days) up to the loop: "days = days or self.config.simulation_days;
\* self.results = []".
RunStart ==
    /\ pc \in {"idle", "done"}
    /\ \E days \in RunDays :
          run_days' = IF days = 0 THEN config.simulation_days ELSE days
    /\ results' = <<>>
    /\ stats' = <<>>
    /\ pc' = "running"
    /\ call' = NoCall
    /\ ret' = 0
    /\ UNCHANGED <<config, n_simulations>>

\* One iteration of "for i in range(self.n_simulations)".
Scenario ==
    /\ pc = "running"
    /\ Len(results) < n_simulations
    /\ \E params \in _sample_params(config) :
          results' = Append(results, scenario(config, params, run_days))
    /\ UNCHANGED <<config, n_simulations, stats, run_days, pc, call, ret>>

\* "return self._calculate_statistics()" after the loop.
RunReturn ==
    /\ pc = "running"
    /\ Len(results) = n_simulations
    /\ stats' = _calculate_statistics(config, n_simulations, results)
    /\ pc' = "done"
    /\ UNCHANGED <<config, n_simulations, results, run_days, call, ret>>

\* The confidence levels asked for, in percent.
Confidences == {50, 90}
Metrics == {"roas", "blended_cpi"}

\* get_confidence_interval(metric, confidence), called between runs.
GetConfidenceInterval ==
    /\ pc \in {"idle", "done"}
    /\ \E metric \in Metrics : \E confidence \in Confidences :
          /\ call' = [op |-> "get_confidence_interval", metric |-> metric,
                      confidence |-> confidence]
          /\ ret' \in get_confidence_interval(results, metric, confidence)
    /\ UNCHANGED <<config, n_simulations, results, stats, run_days, pc>>

\* generate_targets running the simulator on every call.
GenerateTargets_AlwaysRuns ==
    /\ pc \in {"idle", "done"}
    /\ \E days \in RunDays :
          /\ call' = [op |-> "generate_targets", days |-> days]
          /\ run_days' = IF days = 0 THEN config.simulation_days ELSE days
          /\ results' \in RunResults(config, n_simulations, run_days')
          /\ stats' = _calculate_statistics(config, n_simulations, results')
          /\ ret' = targets_of(stats')
    /\ pc' = "done"
    /\ UNCHANGED <<config, n_simulations>>

\* TargetKPIGenerator(simulator).generate_targets(days), called between
\* runs: "if not self.simulator.results: self.simulator.run(days)", the
\* statistics computed again, the dictionary built from them.
GenerateTargets ==
    /\ pc \in {"idle", "done"}
    /\ \E days \in RunDays :
          /\ call' = [op |-> "generate_targets", days |-> days]
          /\ IF results = <<>>
             THEN /\ run_days' =
                        IF days = 0 THEN config.simulation_days ELSE days
                  /\ results' \in RunResults(config, n_simulations, run_days')
                  /\ stats' = _calculate_statistics(config, n_simulations,
                                                    results')
                  /\ ret' = targets_of(stats')
             ELSE /\ ret' = targets_of(_calculate_statistics(
                                          config, n_simulations, results))
                  /\ UNCHANGED <<results, stats, run_days>>
    /\ pc' = "done"
    /\ UNCHANGED <<config, n_simulations>>

Next ==
    RunStart \/ Scenario \/ RunReturn \/ GetConfidenceInterval
       \/ GenerateTargets

Spec == Init /\ [][Next]_vars

-----------------------------------------------------------------------------
(* Specification of the driver over configurations as constructed: the     *)
(* dataclasses of config.py store the values they are given (there is no   *)
(* __post_init__), so a simulator can be built over any of them.           *)

\* AppConfig objects built with a free or negatively priced weekly plan and
\* with a negative variation coefficient, beside a usual one.
ConstructedConfigs ==
    {DriverBase,
     [DriverBase EXCEPT !.subscription.weekly.price = 0],
     [DriverBase EXCEPT !.subscription.weekly.price = -2990000],
     [DriverBase EXCEPT !.simulation.cpm_variation = -100000],
     [DriverBase EXCEPT !.ua.organic_ratio = 950000,
                        !.simulation = [UaVariation EXCEPT
                                           !.n_simulations = MaxSimulations,
                                           !.cvr_variation = -250000]]}

InitConstructed ==
    /\ config \in ConstructedConfigs
    /\ \E n \in 0..MaxSimulations :
          n_simulations = IF n = 0 THEN config.simulation.n_simulations ELSE n
    /\ results = <<>>
    /\ stats = <<>>
    /\ run_days = 0
    /\ pc = "idle"
    /\ call = NoCall
    /\ ret = 0

SpecConstructed == InitConstructed /\ [][Next]_vars

-----------------------------------------------------------------------------
(* Specification of one scenario of run(): the decayed ad metrics of its   *)
(* parameter set, and the iteration of the loop of run() from the sampled  *)
(* parameters to the appended result.                                      *)

\* Horizons below, between and on the milestone days, up to a year.
ScenarioHorizons == {1, 14, 100, 365}

\* Retention variation only: the sampled retention_mult is 0.6, 0.99 or 1.1.
RetentionVariation == [NoVariation EXCEPT !.retention_variation = 100000]

\* The default configuration and the one nobody is retained in after a year,
\* subscriptions sold from day 0 or from day 10, deterministic or not.
ScenarioConfigs ==
    {[AppConfig EXCEPT !.retention.d365 = d365,
                       !.subscription.exploitation_start_day = start_day,
                       !.simulation = sim] :
     d365 \in {0, 20000}, start_day \in {0, 10},
     sim \in {NoVariation, RetentionVariation}}

InitScenario ==
    /\ config \in ScenarioConfigs
    /\ n_simulations = 1
    /\ results = <<>>
    /\ stats = <<>>
    /\ run_days = 0
    /\ pc = "idle"
    /\ call = NoCall
    /\ ret = 0

\* The days the decayed metrics are asked for: before and on day 0, day 1,
\* the decay parameter and its double.
DecayDays(params) ==
    {-1, 0, 1, params.decay_half_life, 2 * params.decay_half_life}

\* A call params.get_ecpm_at_day(day).
EcpmAtDay ==
    /\ pc = "idle"
    /\ \E params \in _sample_params(config) : \E day \in DecayDays(params) :
          /\ call' = [op |-> "get_ecpm_at_day", params |-> params, day |-> day]
          /\ ret' = get_ecpm_at_day(params, day)
    /\ pc' = "returned"
    /\ UNCHANGED <<config, n_simulations, results, stats, run_days>>

\* A call params.get_impressions_at_day(day).
ImpressionsAtDay ==
    /\ pc = "idle"
    /\ \E params \in _sample_params(config) : \E day \in DecayDays(params) :
          /\ call' = [op |-> "get_impressions_at_day", params |-> params,
                      day |-> day]
          /\ ret' = get_impressions_at_day(params, day)
    /\ pc' = "returned"
    /\ UNCHANGED <<config, n_simulations, results, stats, run_days>>

\* What one iteration of the loop of run() computes: ltv_result and the
\* dictionary appended to self.results.
iteration(params, result) ==
    [ltv_result |-> result, appended |-> scenario_entry(params, result)]

\* One iteration of the loop of run(days).
Iteration ==
    /\ pc = "idle"
    /\ \E days \in ScenarioHorizons : \E params \in _sample_params(config) :
          /\ call' = [op |-> "iteration", params |-> params, days |-> days]
          /\ ret' = iteration(params, _calculate_ltv(config, params, days))
    /\ pc' = "returned"
    /\ UNCHANGED <<config, n_simulations, results, stats, run_days>>

NextScenario == EcpmAtDay \/ ImpressionsAtDay \/ Iteration \/ Return

SpecScenario == InitScenario /\ [][NextScenario]_vars

-----------------------------------------------------------------------------
(* Specification of run() draw by draw: every np.random.normal call of the *)
(* sampler is a step, so the rejection loop of sample_with_variation can   *)
(* go round.  call.sampled holds the arguments of SimulationParams(...)    *)
(* evaluated so far, in the order they are written: cpm, ctr, cvr,         *)
(* organic_ratio, ecpm_d0, impressions_d0, retention_mult, pay_rate_mult,  *)
(* renewal_mult; f is the argument that is due; ret is the last draw.      *)

\* The band test with a draw on the edge of the band rejected.
DrawAccepted_Strict(mean, value, min_ratio, max_ratio) ==
    MulF(mean, min_ratio) < value /\ value < MulF(mean, max_ratio)

\* "if mean * min_ratio <= value <= mean * max_ratio"
DrawAccepted(mean, value, min_ratio, max_ratio) ==
    MulF(mean, min_ratio) <= value /\ value <= MulF(mean, max_ratio)

\* The sampled arguments of SimulationParams(...) in the stochastic branch:
\* mean, variation and band of each sample_with_variation call; the fourth
\* is the organic ratio, one draw of noise and no loop.
SampledFields(cfg) ==
    LET sim == cfg.simulation
        avg_variation ==
            (sim.cpm_variation + sim.ctr_variation + sim.cvr_variation) \div 3
        Field(mean, variation, min_ratio, max_ratio) ==
            [mean |-> mean, variation |-> variation, min_ratio |-> min_ratio,
             max_ratio |-> max_ratio, loop |-> TRUE]
    IN <<Field(cfg.ua.cpm, sim.cpm_variation,
               DefaultMinRatio, DefaultMaxRatio),
         Field(cfg.ua.ctr, sim.ctr_variation,
               DefaultMinRatio, DefaultMaxRatio),
         Field(cfg.ua.cvr, sim.cvr_variation,
               DefaultMinRatio, DefaultMaxRatio),
         [mean |-> cfg.ua.organic_ratio,
          variation |-> Min(30000, MulF(avg_variation, 500000)),
          min_ratio |-> 0, max_ratio |-> 0, loop |-> FALSE],
         Field(cfg.ads.ecpm_d0, sim.ecpm_variation,
               DefaultMinRatio, DefaultMaxRatio),
         Field(cfg.ads.impressions_per_dau_d0, sim.ecpm_variation,
               DefaultMinRatio, DefaultMaxRatio),
         Field(ONE, sim.retention_variation, 600000, 1500000),
         Field(ONE, sim.pay_rate_variation, 500000, 2000000),
         Field(ONE, sim.sub_ret_variation, 970000, 1030000)>>

\* A deterministic configuration, one with no scenario, and stochastic ones:
\* a sampled ctr (and organic noise), a sampled ctr of mean zero, sampled
\* retention and renewal multipliers, and a pay-rate coefficient at the
\* threshold.
InitRun ==
    /\ config \in
          {DriverBase,
           [DriverBase EXCEPT !.simulation.n_simulations = 0],
           [DriverBase EXCEPT !.simulation.ctr_variation = 200000],
           [DriverBase EXCEPT !.ua.ctr = 0,
                              !.simulation.ctr_variation = 200000],
           [DriverBase EXCEPT !.simulation.retention_variation = 200000,
                              !.simulation.sub_ret_variation = 200000],
           [DriverBase EXCEPT !.simulation.pay_rate_variation = 1000]}
    /\ n_simulations = config.simulation.n_simulations
    /\ results = <<>>
    /\ stats = <<>>
    /\ run_days = 0
    /\ pc = "idle"
    /\ call = NoCall
    /\ ret = 0

\* "for i in range(self.n_simulations): params = self._sample_params()" up
\* to the first draw: the deterministic branch has all its arguments at
\* once, the stochastic branch none yet.
LoopHead ==
    /\ pc = "running"
    /\ Len(results) < n_simulations
    /\ call' = [op |-> "_sample_params",
                sampled |->
                   IF sample_is_deterministic(config)
                   THEN <<config.ua.cpm, config.ua.ctr, config.ua.cvr,
                          config.ua.organic_ratio, config.ads.ecpm_d0,
                          config.ads.impressions_per_dau_d0, ONE, ONE, ONE>>
                   ELSE <<>>]
    /\ pc' = "sampling"
    /\ UNCHANGED <<config, n_simulations, results, stats, run_days, ret>>

\* sample_with_variation: "if variation == 0 or variation < 0.001: return
\* mean".
ReturnMean ==
    /\ pc = "sampling"
    /\ Len(call.sampled) < 9
    /\ \E f \in {SampledFields(config)[Len(call.sampled) + 1]} :
          /\ f.loop
          /\ f.variation = 0 \/ f.variation < VariationThreshold
          /\ call' = [call EXCEPT !.sampled = Append(@, f.mean)]
    /\ UNCHANGED <<config, n_simulations, results, stats, run_days, pc, ret>>

\* One round of "while True" whose draw lies in the band: "std = mean *
\* variation; value = np.random.normal(mean, std); return value".
DrawInBand ==
    /\ pc = "sampling"
    /\ Len(call.sampled) < 9
    /\ \E f \in {SampledFields(config)[Len(call.sampled) + 1]} :
          /\ f.loop
          /\ ~(f.variation = 0 \/ f.variation < VariationThreshold)
          /\ \E std \in {MulF(f.mean, f.variation)} :
             \E value \in Normal(f.mean, std) :
                /\ DrawAccepted(f.mean, value, f.min_ratio, f.max_ratio)
                /\ ret' = value
                /\ call' = [call EXCEPT !.sampled = Append(@, value)]
    /\ UNCHANGED <<config, n_simulations, results, stats, run_days, pc>>

\* One round of "while True" whose draw lies outside the band: the loop
\* goes round.
DrawOutOfBand ==
    /\ pc = "sampling"
    /\ Len(call.sampled) < 9
    /\ \E f \in {SampledFields(config)[Len(call.sampled) + 1]} :
          /\ f.loop
          /\ ~(f.variation = 0 \/ f.variation < VariationThreshold)
          /\ \E std \in {MulF(f.mean, f.variation)} :
             \E value \in Normal(f.mean, std) :
                /\ ~DrawAccepted(f.mean, value, f.min_ratio, f.max_ratio)
                /\ ret' = value
    /\ UNCHANGED <<config, n_simulations, results, stats, run_days, pc, call>>

\* "organic_ratio=min(0.8, max(0.05, cfg.ua.organic_ratio +
\* np.random.normal(0, organic_variation)))"
DrawOrganicNoise ==
    /\ pc = "sampling"
    /\ Len(call.sampled) < 9
    /\ \E f \in {SampledFields(config)[Len(call.sampled) + 1]} :
          /\ ~f.loop
          /\ \E noise \in Normal(0, f.variation) :
                /\ ret' = noise
                /\ call' = [call EXCEPT !.sampled =
                               Append(@, Min(800000, Max(50000, f.mean + noise)))]
    /\ UNCHANGED <<config, n_simulations, results, stats, run_days, pc>>

\* The rest of the iteration: SimulationParams(...) returned, the cohort
\* simulated over the horizon, the scenario appended to self.results.
FinishScenario ==
    /\ pc = "sampling"
    /\ Len(call.sampled) = 9
    /\ results' =
          Append(results,
                 scenario(config,
                          [cpm |-> call.sampled[1],
                           ctr |-> call.sampled[2],
                           cvr |-> call.sampled[3],
                           organic_ratio |-> call.sampled[4],
                           ecpm_d0 |-> call.sampled[5],
                           impressions_d0 |-> call.sampled[6],
                           ecpm_saturation_ratio |->
                              config.ads.ecpm_saturation_ratio,
                           impressions_saturation_ratio |->
                              config.ads.impressions_saturation_ratio,
                           decay_half_life |-> config.ads.decay_half_life_days,
                           retention_mult |-> call.sampled[7],
                           pay_rate_mult |-> call.sampled[8],
                           renewal_mult |-> call.sampled[9]],
                          run_days))
    /\ pc' = "running"
    /\ UNCHANGED <<config, n_simulations, stats, run_days, call, ret>>

NextRun ==
    RunStart \/ LoopHead \/ ReturnMean \/ DrawInBand \/ DrawOutOfBand
       \/ DrawOrganicNoise \/ FinishScenario \/ RunReturn

\* The steps of the sampler but for the draw outside the band; in every
\* state at most one of them can be taken.
SamplerProgress == LoopHead \/ ReturnMean \/ DrawInBand \/ DrawOrganicNoise

\* The moves of pc that end a scenario and end the run: within NextRun they
\* are the steps of FinishScenario and of RunReturn, and can be taken where
\* those can.
RunProgress ==
    \/ pc = "sampling" /\ Len(call.sampled) = 9 /\ pc' = "running"
    \/ pc = "running" /\ Len(results) = n_simulations /\ pc' = "done"

\* The interpreter goes on with the statement at hand, and a draw inside the
\* band eventually occurs; the caller need not call run().
SpecRun ==
    InitRun /\ [][NextRun]_vars /\ WF_vars(SamplerProgress) /\ WF_pc(RunProgress)

-----------------------------------------------------------------------------
(* Properties of the interpolators (SpecInterp)                            *)

\* The anchors as the claims list them.
RetentionAnchors == <<0, 1, 3, 7, 14, 30, 60, 90, 180, 365>>
SubRetentionAnchors == <<0, 1, 2, 3, 4, 5, 6, 8, 12, 24, 52>>

DayReturned == pc = "returned" /\ call.op = "get_retention_at_day"
CycleReturned == pc = "returned" /\ call.op = "get_retention_at_cycle"
CalledCurve == config.subscription[call.plan].sub_retention

\* C9: at every known anchor of the calendar curve and of a subscription
\* curve the interpolator returns exactly the configured value, whatever the
\* value is (also one below the log floor).
C9_AnchorIdentity ==
    /\ DayReturned =>
         \A i \in 1..Len(RetentionAnchors) :
            call.day = RetentionAnchors[i]
               => ret = config.retention[RetentionFields[i]]
    /\ CycleReturned =>
         \A i \in 1..Len(SubRetentionAnchors) :
            call.cycle = SubRetentionAnchors[i]
               => ret = CalledCurve[SubRetentionFields[i]]

\* An anchor configured below the log floor is returned as configured.
C9_Witness ==
    /\ DayReturned
    /\ call.day = 180
    /\ config.retention.d180 = 500
    /\ ret = 500

\* The anchors around an interpolated point, and their configured values.
LowerIndex(anchors, point) ==
    SetMax({i \in 1..Len(anchors) : anchors[i] < point})
Interior(anchors, point) ==
    /\ point > anchors[1]
    /\ point < anchors[Len(anchors)]
    /\ \A i \in 1..Len(anchors) : anchors[i] # point
DayV1 == config.retention[RetentionFields[LowerIndex(RetentionAnchors, call.day)]]
DayV2 == config.retention[RetentionFields[LowerIndex(RetentionAnchors, call.day) + 1]]
CycleV1 == CalledCurve[SubRetentionFields[LowerIndex(SubRetentionAnchors, call.cycle)]]
CycleV2 == CalledCurve[SubRetentionFields[LowerIndex(SubRetentionAnchors, call.cycle) + 1]]
NonIncreasingRates(v1, v2) == 0 <= v2 /\ v2 <= v1 /\ v1 <= ONE

C11_BeyondLastAnchor ==
    /\ (DayReturned /\ call.day > 365) => ret = config.retention.d365
    /\ (CycleReturned /\ call.cycle > 52) =>
          /\ ~Raised(ret)
          /\ CalledCurve.cycle_24 # 0 =>
                ret = MulF(CalledCurve.cycle_52,
                           PowF(DivF(CalledCurve.cycle_52,
                                     CalledCurve.cycle_24),
                                call.cycle - 52))

\* C12: below the smallest key (a negative day, a negative cycle) both
\* interpolators return the value at key 0 without raising, and at day 0 the
\* calendar interpolator returns 1.0.
C12_BelowSmallestKey ==
    /\ (DayReturned /\ call.day < 0) => ret = config.retention.d0
    /\ (CycleReturned /\ call.cycle < 0) => ret = CalledCurve.cycle_0
    /\ (DayReturned /\ call.day = 0) => ret = ONE

-----------------------------------------------------------------------------
(* Properties of the simulation driver (Spec)                              *)

\* Two values equal up to the rounding of a quotient and a product.
Near(a, b) == Abs(a - b) <= 2

\* C1: for every scenario appended by run(), roas is ltv_total / blended_cpi
\* (roas x blended_cpi gives ltv_total back) when blended_cpi is positive and
\* finite, and roas and every entry of roas_curve are 0 when blended_cpi is
\* infinite.
C1_RoasCpiConsistency ==
    \A i \in 1..Len(results) :
        LET r == results[i]
        IN /\ (IsFinite(r.blended_cpi) /\ r.blended_cpi > 0) =>
                Near(MulF(r.roas, r.blended_cpi), r.ltv_total)
           /\ r.blended_cpi = Inf =>
                /\ r.roas = 0
                /\ \A k \in 1..Len(r.roas_curve) : r.roas_curve[k] = 0

\* A finished run of two scenarios with different finite CPIs and a
\* positive return.
C1_Witness ==
    /\ pc = "done"
    /\ Len(results) = 2
    /\ IsFinite(results[1].blended_cpi) /\ IsFinite(results[2].blended_cpi)
    /\ results[1].blended_cpi < results[2].blended_cpi
    /\ results[2].roas > ONE

\* A scenario count well above those the simulators of the model are
\* built with.
ManyScenarios == 50

AllVariationsZero ==
    \A i \in 1..Len(VariationFields) :
        config.simulation[VariationFields[i]] = 0

\* The statistics another run of m scenarios returns for the same
\* configuration and horizon when no coefficient varies.
OtherRun(m) ==
    LET one == scenario(config, sample_params_deterministic(config), run_days)
    IN _calculate_statistics(config, m, [i \in 1..m |-> one])

OtherCounts == (1..MaxSimulations) \cup {ManyScenarios}

RunDone == pc = "done" /\ results # <<>>
StatFields == {"roas", "ltv_total", "ltv_iaa", "ltv_iap", "cpi"}
ComputedStats == {f \in StatFields : stats[f] # <<>>}

PercentilesOrdered(st) ==
    /\ st.min <= st.p5
    /\ st.p5 <= st.p25
    /\ st.p25 <= st.p50
    /\ st.p50 <= st.p75
    /\ st.p75 <= st.p95
    /\ st.p95 <= st.max

\* C13 as claimed: for every non-empty results list each of the roas,
\* ltv_total, ltv_iaa, ltv_iap and cpi statistics has
\* min <= P5 <= P25 <= P50 <= P75 <= P95 <= max and median = P50.
C13_PercentileOrder ==
    RunDone =>
       \A f \in ComputedStats :
          PercentilesOrdered(stats[f]) /\ stats[f].median = stats[f].p50

\* C13 amended: the ordering holds; median equals P50 exactly for an odd
\* number of values and up to the rounding of one operation for an even one
\* (the median is (a + b) / 2, P50 is b - (b - a) * 0.5).
C13_PercentileOrderMedianNear ==
    RunDone =>
       \A f \in ComputedStats :
          /\ PercentilesOrdered(stats[f])
          /\ Abs(stats[f].median - stats[f].p50) <= 1
          /\ (f # "cpi" /\ Len(results) % 2 = 1)
                => stats[f].median = stats[f].p50

\* Two scenarios of different roas: the percentiles are strictly ordered.
C13_Witness ==
    /\ RunDone
    /\ Len(results) = 2
    /\ stats.roas.min < stats.roas.p5
    /\ stats.roas.p5 < stats.roas.p25
    /\ stats.roas.p25 < stats.roas.p50
    /\ stats.roas.p50 < stats.roas.p75
    /\ stats.roas.p75 < stats.roas.p95
    /\ stats.roas.p95 < stats.roas.max

\* generate_targets has returned a dictionary.
TargetsReturned == call.op = "generate_targets" /\ ~HasRaised(ret)

TargetNames ==
    {"pessimistic", "safe", "expected", "breakthrough", "optimistic"}

\* The percentile the spec gives a named target.
TargetPercentile(st, name) ==
    CASE name = "pessimistic" -> st.p5
      [] name = "safe" -> st.p25
      [] name = "expected" -> st.p50
      [] name = "breakthrough" -> st.p75
      [] name = "optimistic" -> st.p95

\* x rounded to four decimals.
RoundedTo4(t, x) == t % 100 = 0 /\ Abs(t - x) <= 50

\* C14: the targets generate_targets produces are, for both roas and
\* ltv_total, pessimistic = P5, safe = P25, expected = P50 (the median, not
\* the mean), breakthrough = P75 and optimistic = P95 of the distribution,
\* rounded to four decimals.
C14_NamedTargets ==
    TargetsReturned =>
       \A f \in {"roas", "ltv_total"} : \A name \in TargetNames :
          /\ name \in DOMAIN ret[f]
          /\ RoundedTo4(ret[f][name], TargetPercentile(stats[f], name))

\* C16: with an empty results list (no run yet, or a run that produced no
\* scenario) _calculate_statistics returns an empty statistics object,
\* get_confidence_interval returns (0, 0), and generate_targets does not
\* raise.
C16_EmptyResults ==
    /\ (pc = "done" /\ results = <<>>) => stats = <<>>
    /\ (call.op = "get_confidence_interval" /\ results = <<>>)
          => ret = Interval(0, 0)
    /\ call.op = "generate_targets" => ~HasRaised(ret)

\* The scenarios of the retained results with a finite blended CPI.
FiniteCpi == {i \in 1..Len(results) : results[i].blended_cpi # Inf}
AllScenarios == 1..Len(results)
FieldValues(f, I) == {results[i][f] : i \in I}
FieldSum(f) == SumSeq([i \in 1..Len(results) |-> results[i][f]], 1, Len(results))

\* p is the share k / n, rounded down at the sixth decimal.
IsShare(p, k, n) == n * p <= k * ONE /\ k * ONE < n * (p + 1)

\* C15: the cpi statistics are computed over exactly the scenarios with a
\* finite blended_cpi and are empty when there is none; the roas, ltv_total,
\* ltv_iaa and ltv_iap statistics and the risk probabilities are computed
\* over all n scenarios, those with an infinite CPI counting with roas = 0.
C15_InfiniteCpiExcluded ==
    RunDone =>
       /\ (stats.cpi = <<>>) <=> (FiniteCpi = {})
       /\ FiniteCpi # {} =>
             /\ stats.cpi.min = SetMin(FieldValues("blended_cpi", FiniteCpi))
             /\ stats.cpi.max = SetMax(FieldValues("blended_cpi", FiniteCpi))
       /\ \A f \in {"roas", "ltv_total", "ltv_iaa", "ltv_iap"} :
             /\ stats[f].min = SetMin(FieldValues(f, AllScenarios))
             /\ stats[f].max = SetMax(FieldValues(f, AllScenarios))
             /\ Abs(Len(results) * stats[f].mean - FieldSum(f)) < Len(results)
       /\ \A i \in AllScenarios \ FiniteCpi : results[i].roas = 0
       /\ IsShare(stats.risk.probability_profitable,
                  Cardinality({i \in AllScenarios : results[i].roas >= ONE}),
                  Len(results))
       /\ IsShare(stats.risk.probability_roas_below_50pct,
                  Cardinality({i \in AllScenarios :
                                  results[i].roas < ONE \div 2}),
                  Len(results))

\* A run of two scenarios, both with an infinite CPI and revenue: no cpi
\* statistics, a roas of 0 throughout, every scenario below 50%.
C15_Witness ==
    /\ RunDone
    /\ Len(results) = 2
    /\ FiniteCpi = {}
    /\ stats.cpi = <<>>
    /\ stats.roas.max = 0
    /\ stats.ltv_total.min > 0
    /\ stats.risk.probability_roas_below_50pct = ONE
    /\ stats.risk.probability_profitable = 0

\* The scenarios a run over the current horizon can produce.
LastRunScenarios ==
    {scenario(config, params, run_days) : params \in _sample_params(config)}

\* C18: after any sequence of run() calls the retained results list holds
\* exactly n_simulations entries, all produced by the most recent run, and
\* the statistics that run returned are computed from exactly those entries.
C18_ResultsOfLastRun ==
    pc = "done" =>
       LET produced == LastRunScenarios
       IN /\ Len(results) = n_simulations
          /\ \A i \in 1..Len(results) : results[i] \in produced
          /\ stats = _calculate_statistics(config, n_simulations, results)

\* A finished run over 20 days that retains two different scenarios.
C18_Witness ==
    /\ pc = "done"
    /\ run_days = 20
    /\ n_simulations = 2
    /\ Len(results) = 2
    /\ results[1] # results[2]
    /\ stats.n_simulations = 2

\* The orders the scenarios of the results list can be executed in.
Orders ==
    {order \in [1..Len(results) -> 1..Len(results)] :
        \A i, j \in 1..Len(results) : order[i] = order[j] => i = j}

Reordered(order) == [i \in 1..Len(results) |-> results[order[i]]]

\* The statistics of a finished run are those of its scenarios in any order.
StatisticsOrderFree ==
    (pc = "done" /\ results # <<>>) =>
        \A order \in Orders :
           _calculate_statistics(config, n_simulations, Reordered(order))
              = stats

\* A step of the loop of run(): it appends one result, which is the
\* scenario of some parameter set, the configuration and the horizon, and
\* leaves the configuration and the results before it as they were.
ScenarioStep ==
    (pc = "running" /\ results' # results) =>
        /\ config' = config
        /\ Len(results') = Len(results) + 1
        /\ SubSeq(results', 1, Len(results)) = results
        /\ results'[Len(results')] \in LastRunScenarios

C27_ReportedHorizon ==
    (pc = "done" /\ stats # <<>>) => stats.days = run_days

\* A step of generate_targets(days).
TargetsStep ==
    /\ pc \in {"idle", "done"}
    /\ pc' = "done"
    /\ call'.op = "generate_targets"

\* The horizon a call generate_targets(days) would pass on to run().
AskedHorizon(days) == IF days = 0 THEN config.simulation_days ELSE days

\* C28: generate_targets(days) runs the simulator only when the results
\* list is empty; when results exist it leaves the list (and the horizon
\* they were simulated over) unchanged and derives the targets from that
\* list whatever days is passed, so a call that follows another call of
\* generate_targets, no run() in between, returns the same targets.
GenerateTargetsStep ==
    TargetsStep =>
        /\ results' # results => results = <<>>
        /\ results # <<>> =>
              /\ results' = results
              /\ run_days' = run_days
              /\ ret' = targets_of(_calculate_statistics(
                                      config, n_simulations, results))
        /\ call.op = "generate_targets" => ret' = ret

C28_TargetsFromExistingResults == [][GenerateTargetsStep]_vars

\* generate_targets(days) has returned targets from the two differing
\* scenarios of a run over another horizon than the one asked for.
C28_Witness ==
    /\ pc = "done"
    /\ call.op = "generate_targets"
    /\ Len(results) = 2
    /\ results[1].roas # results[2].roas
    /\ AskedHorizon(call.days) # run_days
    /\ ret = targets_of(_calculate_statistics(config, n_simulations, results))
    /\ ret.roas.pessimistic < ret.roas.optimistic

-----------------------------------------------------------------------------
(* Properties of configuration construction (SpecConstructed)              *)

\* The configuration is one the spec calls valid: every plan price above 0
\* and no negative variation coefficient (the day-0 anchor is a field of
\* RetentionMetrics and cannot be missing).
ValidConfig ==
    /\ \A i \in 1..Len(PlanNames) : config.subscription[PlanNames[i]].price > 0
    /\ \A i \in 1..Len(VariationFields) :
          config.simulation[VariationFields[i]] >= 0

\* C17: an invalid configuration (a plan price <= 0, a negative variation
\* coefficient) is rejected when the configuration object is constructed,
\* so run() is never entered with one.
C17_InvalidConfigRejected ==
    pc \in {"running", "done"} => ValidConfig

-----------------------------------------------------------------------------
(* Properties of the parameter sampler (SpecSample)                        *)

SampleReturned == pc = "returned" /\ call.op = "_sample_params"

\* All seven variation coefficients are below 0.001.
AllVariationsBelowThreshold ==
    \A i \in 1..Len(VariationFields) :
        1000 * config.simulation[VariationFields[i]] < ONE

\* C6: _sample_params is in deterministic mode exactly when all seven
\* variation coefficients are below 0.001, and in that mode it returns the
\* configured cpm, ctr, cvr, organic_ratio, ecpm_d0 and impressions_d0
\* unchanged and the three multipliers equal to 1.0, so every call returns
\* the same parameter set.
C6_DeterministicMode ==
    SampleReturned =>
        /\ call.deterministic <=> AllVariationsBelowThreshold
        /\ call.deterministic =>
            /\ ret.cpm = config.ua.cpm
            /\ ret.ctr = config.ua.ctr
            /\ ret.cvr = config.ua.cvr
            /\ ret.organic_ratio = config.ua.organic_ratio
            /\ ret.ecpm_d0 = config.ads.ecpm_d0
            /\ ret.impressions_d0 = config.ads.impressions_per_dau_d0
            /\ ret.retention_mult = ONE
            /\ ret.pay_rate_mult = ONE
            /\ ret.renewal_mult = ONE

\* A deterministic call under a non-zero coefficient just below 0.001.
C6_Witness ==
    /\ SampleReturned
    /\ call.deterministic
    /\ config.simulation.sub_ret_variation = 999
    /\ ret.renewal_mult = ONE

\* v lies in [lo x mean, hi x mean], lo and hi given in tenths.
InBand(v, mean, lo10, hi10) == lo10 * mean <= 10 * v /\ 10 * v <= hi10 * mean

\* C8: in stochastic mode cpm, ctr, cvr, ecpm_d0 and impressions_d0 lie in
\* [0.3 x mean, 2.0 x mean], retention_mult in [0.6, 1.5], pay_rate_mult in
\* [0.5, 2.0], renewal_mult in [0.97, 1.03] and organic_ratio in
\* [0.05, 0.80].
C8_StochasticBands ==
    (SampleReturned /\ ~call.deterministic) =>
        /\ InBand(ret.cpm, config.ua.cpm, 3, 20)
        /\ InBand(ret.ctr, config.ua.ctr, 3, 20)
        /\ InBand(ret.cvr, config.ua.cvr, 3, 20)
        /\ InBand(ret.ecpm_d0, config.ads.ecpm_d0, 3, 20)
        /\ InBand(ret.impressions_d0, config.ads.impressions_per_dau_d0, 3, 20)
        /\ InBand(ret.retention_mult, ONE, 6, 15)
        /\ InBand(ret.pay_rate_mult, ONE, 5, 20)
        /\ 970000 <= ret.renewal_mult /\ ret.renewal_mult <= 1030000
        /\ 50000 <= ret.organic_ratio /\ ret.organic_ratio <= 800000

\* A stochastic call whose draws moved the parameters and whose organic
\* ratio was clamped at the upper end.
C8_Witness ==
    /\ SampleReturned
    /\ ~call.deterministic
    /\ ret.cpm # config.ua.cpm
    /\ ret.renewal_mult = 980000
    /\ ret.retention_mult = 1150000
    /\ config.ua.organic_ratio = 790000
    /\ ret.organic_ratio = 800000

-----------------------------------------------------------------------------
(* Properties of the cohort LTV accumulator (SpecLtv)                      *)

LtvReturned == pc = "returned" /\ call.op = "_calculate_ltv"

\* The plans of the configuration, and a plan's first payment day.
ConfiguredPlans == {config.subscription[PlanNames[i]] : i \in 1..Len(PlanNames)}

FirstPaymentDay(plan) ==
    config.subscription.exploitation_start_day
        + (IF plan.has_trial THEN plan.trial_days ELSE 0)

\* The events of a positive amount, and their sum before the platform fee.
Paying(e) == e.amount > 0
PayingEvents == SelectSeq(ret.iap_events, Paying)
GrossRevenue == SumAmounts(ret.iap_events, 1, Len(ret.iap_events))

\* The scenario of the end-to-end example, at horizon 14.
C2_Example ==
    /\ LtvReturned
    /\ call.days = 14
    /\ config.ua.cpm = 5 * ONE /\ config.ua.ctr = 20000
    /\ config.ua.cvr = 250000 /\ config.ua.organic_ratio = 300000
    /\ config.simulation = NoVariation
    /\ config.subscription.exploitation_start_day = 0
    /\ config.subscription.platform_fee_rate = 300000
    /\ config.subscription.weekly.pay_rate = 20000
    /\ config.subscription.weekly.price = 2990000
    /\ ~config.subscription.weekly.has_trial
    /\ config.subscription.weekly.duration_days = 7
    /\ config.subscription.weekly.sub_retention.cycle_1 = 500000
    /\ config.subscription.monthly.pay_rate = 0
    /\ config.subscription.yearly.pay_rate = 0
    /\ config.subscription.lifetime.pay_rate = 0

\* C2 as stated: the example has cpi_paid 1.00, blended_cpi 0.70 and exactly
\* two payment events, on day 0 and day 7, totalling 0.0897 before the
\* platform fee and 0.06279 after it.
C2_TwoPaymentEvents ==
    C2_Example =>
        /\ ret.cpi_paid = ONE
        /\ ret.blended_cpi = 700000
        /\ Len(PayingEvents) = 2
        /\ PayingEvents[1].day = 0 /\ PayingEvents[2].day = 7
        /\ GrossRevenue = 89700
        /\ ret.ltv_iap = 62790

\* C2: the example has cpi_paid 1.00, blended_cpi 0.70 and three payment
\* events, on days 0, 7 and 14 (the horizon day is billed), of 0.0598, 0.0299
\* and 0.025116: 0.114816 before the platform fee, 0.0803712 after it; the
\* two-event figure 0.06279 is the cumulative value at day 7.
C2_ThreePaymentEvents ==
    C2_Example =>
        /\ ret.cpi_paid = ONE
        /\ ret.blended_cpi = 700000
        /\ Len(PayingEvents) = 3
        /\ PayingEvents[1] = [day |-> 0, amount |-> 59800]
        /\ PayingEvents[2] = [day |-> 7, amount |-> 29900]
        /\ PayingEvents[3] = [day |-> 14, amount |-> 25116]
        /\ GrossRevenue = 114816
        /\ 10 * ret.ltv_iap <= 114816 * 7
        /\ 114816 * 7 < 10 * (ret.ltv_iap + 1)
        /\ \E i \in 1..Len(ret.daily_breakdown) :
              /\ ret.daily_breakdown[i].day = 7
              /\ ret.daily_breakdown[i].cumulative_iap = 62790

\* The example was computed and its last cumulative value is above 0.06279.
C2_Witness ==
    /\ C2_Example
    /\ ret.daily_breakdown[Len(ret.daily_breakdown)].day = 14
    /\ ret.daily_breakdown[Len(ret.daily_breakdown)].cumulative_iap > 62790

\* The number of events a plan should emit within the horizon: none when its
\* first payment is beyond it, one for a no-renewal plan, and otherwise one
\* plus a renewal per full period, 52 at most.
ExpectedEvents(plan, days) ==
    IF FirstPaymentDay(plan) > days THEN 0
    ELSE IF plan.duration_days >= 36500 THEN 1
    ELSE 1 + Min(52, (days - FirstPaymentDay(plan)) \div plan.duration_days)

\* C3: a plan with duration_days >= 36500 emits exactly one payment event
\* when its first payment day is within the horizon, whatever the horizon
\* and the mode: the events of a call are one per such plan plus those of
\* the renewing plans.
C3_LifetimeSingleEvent ==
    LtvReturned =>
        Len(ret.iap_events) =
            ExpectedEvents(config.subscription.weekly, call.days)
            + ExpectedEvents(config.subscription.monthly, call.days)
            + ExpectedEvents(config.subscription.yearly, call.days)
            + ExpectedEvents(config.subscription.lifetime, call.days)

\* A horizon at which a renewal of the lifetime plan would fall due.
C3_Witness ==
    /\ LtvReturned
    /\ FirstPaymentDay(config.subscription.lifetime)
          + config.subscription.lifetime.duration_days <= call.days
    /\ Len(ret.iap_events) = 160

\* The configuration with one plan's pay rate set to zero.
WithoutPlan(name) == [config EXCEPT !.subscription[name].pay_rate = 0]

\* C4: a plan whose first payment day is beyond the horizon emits no event
\* (no event lies beyond the horizon, and none at all when every plan starts
\* beyond it) and adds nothing to ltv_iap or to any cumulative_iap: the
\* result is that of the configuration with the plan's pay rate at zero.
C4_EventCutoff ==
    LtvReturned =>
        /\ \A i \in 1..Len(ret.iap_events) : ret.iap_events[i].day <= call.days
        /\ (\A plan \in ConfiguredPlans : FirstPaymentDay(plan) > call.days) =>
              /\ ret.iap_events = <<>>
              /\ ret.ltv_iap = 0
              /\ \A i \in 1..Len(ret.daily_breakdown) :
                    ret.daily_breakdown[i].cumulative_iap = 0
        /\ \A k \in 1..Len(PlanNames) :
              FirstPaymentDay(config.subscription[PlanNames[k]]) > call.days =>
                LET other == _calculate_ltv(WithoutPlan(PlanNames[k]),
                                            call.params, call.days)
                IN /\ ret.ltv_iap = other.ltv_iap
                   /\ ret.daily_breakdown = other.daily_breakdown

\* The lifetime plan pays on day 10 and the three trial plans start beyond
\* the horizon of 12 days.
C4_Witness ==
    /\ LtvReturned
    /\ call.days = 12
    /\ FirstPaymentDay(config.subscription.weekly) = 13
    /\ Len(ret.iap_events) = 1
    /\ ret.ltv_iap > 0

\* The same call under a platform fee of zero.
FeeFree ==
    _calculate_ltv([config EXCEPT !.subscription.platform_fee_rate = 0],
                   call.params, call.days)

\* x * (1 - f), rounded toward zero.
NetOf(x) ==
    (x * ((ONE - config.subscription.platform_fee_rate) \div 1000)) \div 1000

\* C5 as stated: with G the fee-free ltv_iap, ltv_iap equals G * (1 - f),
\* every cumulative_iap equals the fee-free cumulative value times (1 - f),
\* and ltv_iaa is the fee-free ltv_iaa.
C5_FeeScalesExactly ==
    LtvReturned =>
        LET free == FeeFree
        IN /\ ret.ltv_iap = NetOf(free.ltv_iap)
           /\ ret.ltv_iaa = free.ltv_iaa
           /\ Len(ret.daily_breakdown) = Len(free.daily_breakdown)
           /\ \A i \in 1..Len(ret.daily_breakdown) :
                 ret.daily_breakdown[i].cumulative_iap
                     = NetOf(free.daily_breakdown[i].cumulative_iap)

\* The events counted in the i-th cumulative value of the breakdown.
EventsUpTo(i) ==
    Cardinality({k \in 1..Len(ret.iap_events) :
                    ret.iap_events[k].day <= ret.daily_breakdown[i].day})

\* C5: with G the fee-free ltv_iap, ltv_iap equals G * (1 - f) and ltv_iaa
\* is unchanged; every cumulative_iap equals the fee-free cumulative value
\* times (1 - f) up to the rounding of the products it sums, one per event.
C5_FeeScales ==
    LtvReturned =>
        LET free == FeeFree
        IN /\ ret.ltv_iap = NetOf(free.ltv_iap)
           /\ ret.ltv_iaa = free.ltv_iaa
           /\ Len(ret.daily_breakdown) = Len(free.daily_breakdown)
           /\ \A i \in 1..Len(ret.daily_breakdown) :
                 LET net == NetOf(free.daily_breakdown[i].cumulative_iap)
                     got == ret.daily_breakdown[i].cumulative_iap
                 IN net - EventsUpTo(i) <= got /\ got <= net + 1

\* A call under the 30% fee with revenue from subscriptions.
C5_Witness ==
    /\ LtvReturned
    /\ config.subscription.platform_fee_rate = 300000
    /\ call.days = 30
    /\ ret.ltv_iap > 0
    /\ ret.ltv_iap < FeeFree.ltv_iap
    /\ ret.daily_breakdown[Len(ret.daily_breakdown)].cumulative_iap > 0

\* expected_subscribers of a plan under the parameters of the call.
ExpectedSubscribers(plan) ==
    LET effective_pay_rate == MulF(plan.pay_rate, call.params.pay_rate_mult)
    IN IF plan.has_trial
       THEN MulF(effective_pay_rate, plan.trial_to_paid_rate)
       ELSE effective_pay_rate

\* The renewals of a plan due within the horizon, 52 at most, and the cycles
\* it is paid for: none when the first payment is beyond the horizon, cycle
\* 0 alone for a lifetime plan.
RenewalsDue(plan) == (call.days - FirstPaymentDay(plan)) \div plan.duration_days

RenewalCount(plan) ==
    IF plan.duration_days >= 36500 THEN 0 ELSE Min(52, RenewalsDue(plan))

PaidCycles(plan) ==
    IF FirstPaymentDay(plan) > call.days THEN {} ELSE 0..RenewalCount(plan)

PaymentDay(plan, k) == FirstPaymentDay(plan) + k * plan.duration_days

retention_at(plan, i) == get_retention_at_cycle(plan.sub_retention, i)

\* The factors of the cycles 0..k, the factor of cycle i at index i + 1:
\* the product over i = 1..k of (retention_at(i) / retention_at(i-1)) x
\* renewal_mult, a step being 0 when the previous retention is not positive.
RECURSIVE RetentionFactors(_, _)
RetentionFactors(plan, k) ==
    IF k = 0 THEN <<ONE>>
    ELSE LET before == RetentionFactors(plan, k - 1)
             prev == retention_at(plan, k - 1)
             step == IF prev <= 0 THEN 0
                     ELSE DivF(retention_at(plan, k), prev)
         IN Append(before,
                   MulF(before[k], MulF(step, call.params.renewal_mult)))

\* (retention_at(k) / retention_at(0)) x renewal_mult^k
Telescoped(plan, k) ==
    MulF(DivF(retention_at(plan, k), retention_at(plan, 0)),
         PowF(call.params.renewal_mult, k))

\* The payments claimed for a plan, that of cycle k at index k + 1.
ClaimedPayments(plan) ==
    IF PaidCycles(plan) = {} THEN <<>>
    ELSE LET factors == RetentionFactors(plan, RenewalCount(plan))
             subscribers == ExpectedSubscribers(plan)
         IN [i \in 1..(RenewalCount(plan) + 1) |->
                [day |-> PaymentDay(plan, i - 1),
                 amount |-> MulF(MulF(subscribers, factors[i]), plan.price)]]

AllClaimedPayments ==
    ClaimedPayments(config.subscription.weekly)
        \o ClaimedPayments(config.subscription.monthly)
        \o ClaimedPayments(config.subscription.yearly)
        \o ClaimedPayments(config.subscription.lifetime)

\* How often an event occurs in a sequence of events.
Occurrences(events, e) ==
    Cardinality({i \in 1..Len(events) : events[i] = e})

\* C19: the events returned are, for each plan and each cycle k paid within
\* the horizon, a payment on day first_day + k x duration_days of
\* expected_subscribers x factor x price, the factor being the running
\* product of (retention_at(i) / retention_at(i-1)) x renewal_mult; the
\* factor is (retention_at(k) / retention_at(0)) x renewal_mult^k, up to
\* the rounding of its k steps, while retention_at(0..k-1) are positive,
\* and 0 from the first cycle whose previous retention is not positive.
C19_CumulativeRetention ==
    LtvReturned =>
        LET claimed == AllClaimedPayments
            emitted == ret.iap_events
        IN /\ Len(emitted) = Len(claimed)
           /\ \A i \in 1..Len(emitted) :
                 Occurrences(emitted, emitted[i])
                    = Occurrences(claimed, emitted[i])
           /\ \A plan \in ConfiguredPlans :
                 PaidCycles(plan) # {} =>
                    LET factors == RetentionFactors(plan, RenewalCount(plan))
                    IN \A k \in 1..RenewalCount(plan) :
                          /\ (\A i \in 0..(k - 1) : retention_at(plan, i) > 0)
                                => Abs(factors[k + 1] - Telescoped(plan, k))
                                      <= 4 * k
                          /\ (\E i \in 0..(k - 1) : retention_at(plan, i) <= 0)
                                => factors[k + 1] = 0

\* A stochastic call on the plan nobody renews a third time: the second
\* renewal is paid for, the third and the fourth bring nothing.
C19_Witness ==
    /\ LtvReturned
    /\ call.days = 30
    /\ call.params.renewal_mult # ONE
    /\ config.subscription.exploitation_start_day = 0
    /\ config.subscription.weekly.sub_retention.cycle_3 = 0
    /\ ExpectedSubscribers(config.subscription.weekly) > 0
    /\ \E i \in 1..Len(ret.iap_events) :
          ret.iap_events[i].day = 14 /\ ret.iap_events[i].amount > 0
    /\ \A i \in 1..Len(ret.iap_events) :
          ret.iap_events[i].day > 14 => ret.iap_events[i].amount = 0
    /\ Occurrences(ret.iap_events,
                   ClaimedPayments(config.subscription.weekly)[5]) >= 1

\* The days of the events returned, and the days claimed for a plan: its
\* first payment day F when within the horizon H, and F + k x duration_days
\* for k = 1 .. min(52, floor((H - F) / duration_days)) when it renews.
EmittedDays == [i \in 1..Len(ret.iap_events) |-> ret.iap_events[i].day]

ClaimedDays(plan) ==
    IF FirstPaymentDay(plan) > call.days THEN <<>>
    ELSE [i \in 1..(RenewalCount(plan) + 1) |-> PaymentDay(plan, i - 1)]

AllClaimedDays ==
    ClaimedDays(config.subscription.weekly)
        \o ClaimedDays(config.subscription.monthly)
        \o ClaimedDays(config.subscription.yearly)
        \o ClaimedDays(config.subscription.lifetime)

\* C20: a non-lifetime plan with first payment day F <= H has
\* min(52, floor((H - F) / duration_days)) renewal events, on the days
\* F + k x duration_days, k = 1, 2, ..., the day H included: the days of the
\* events returned are those days and the first payment days of the plans;
\* for H <= 365, duration_days >= 7 and F >= 0 every renewal day within the
\* horizon has its event.
C20_RenewalCount ==
    LtvReturned =>
        LET emitted == EmittedDays
            claimed == AllClaimedDays
        IN /\ Len(emitted) = Len(claimed)
           /\ \A i \in 1..Len(emitted) :
                 Occurrences(emitted, emitted[i])
                    = Occurrences(claimed, emitted[i])
           /\ \A plan \in ConfiguredPlans :
                 (/\ plan.duration_days < 36500
                  /\ FirstPaymentDay(plan) <= call.days
                  /\ call.days <= 365
                  /\ plan.duration_days >= 7
                  /\ FirstPaymentDay(plan) >= 0) =>
                    \A k \in 1..RenewalsDue(plan) :
                       Occurrences(emitted, PaymentDay(plan, k)) >= 1

\* The weekly plan paid first on day 0, over 364 days: the 52nd renewal
\* falls on the last day of the horizon.
C20_Witness ==
    /\ LtvReturned
    /\ call.days = 364
    /\ FirstPaymentDay(config.subscription.weekly) = 0
    /\ config.subscription.weekly.duration_days = 7
    /\ RenewalsDue(config.subscription.weekly) = 52
    /\ Occurrences(EmittedDays, 364) >= 1

\* The plans that renew: weekly, monthly, yearly.
RenewingPlans ==
    {config.subscription.weekly, config.subscription.monthly,
     config.subscription.yearly}

\* The curve of a plan falls (or stays) from every cycle to the next.
CurveNonIncreasing(plan) ==
    /\ retention_at(plan, 0) = ONE
    /\ \A k \in 1..MaxRenewalCycles :
          /\ retention_at(plan, k) <= retention_at(plan, k - 1)
          /\ get_renewal_rate(plan, k) <= ONE

\* The payments of a plan as the loop over the plans emits them, first
\* payment first.
PaymentsOf(plan) ==
    PlanEvents(plan, call.params, call.days,
               config.subscription.exploitation_start_day)

\* C29: in the default configuration the retention curve of the weekly,
\* the monthly and the yearly plan is 1.0 at cycle 0 and non-increasing over
\* the cycles 0..52, every renewal rate get_renewal_rate(k) is at most 1,
\* and in deterministic mode no renewal payment of a plan is larger than
\* the plan's payment before it.
C29_RenewalsNonIncreasing ==
    (LtvReturned /\ IsDefaultSubscription(config)) =>
        \A plan \in RenewingPlans :
           /\ CurveNonIncreasing(plan)
           /\ _is_deterministic(config) =>
                 \A i \in 2..Len(PaymentsOf(plan)) :
                    PaymentsOf(plan)[i].amount <= PaymentsOf(plan)[i - 1].amount

-----------------------------------------------------------------------------
(* Properties of one scenario (SpecScenario)                               *)

IterationReturned == pc = "returned" /\ call.op = "iteration"

\* retention_at(d) x retention_mult clamped into [0.0001, 1.0]
ClampedRetention(d) ==
    LET adjusted == MulF(get_retention_at_day(config.retention, d),
                         call.params.retention_mult)
    IN IF adjusted < 100 THEN 100
       ELSE IF adjusted > ONE THEN ONE
       ELSE adjusted

\* The sum over d = lo..hi of that factor x arpdau_at(d).
RECURSIVE AdRevenue(_, _)
AdRevenue(lo, hi) ==
    IF lo > hi THEN 0
    ELSE IF lo = hi
         THEN MulF(ClampedRetention(lo), get_arpdau_at_day(call.params, lo))
    ELSE AdRevenue(lo, (lo + hi) \div 2) + AdRevenue((lo + hi) \div 2 + 1, hi)

MilestoneDays == {Milestones[i] : i \in 1..Len(Milestones)}

\* The entries of the breakdown recorded for a day.
EntriesOf(m) ==
    {i \in 1..Len(ret.ltv_result.daily_breakdown) :
        ret.ltv_result.daily_breakdown[i].day = m}

\* C21: ltv_iaa is the sum over d = 0..horizon of (retention_at(d) x
\* retention_mult clamped into [0.0001, 1.0]) x arpdau_at(d), and every
\* milestone m <= horizon has one entry in the breakdown, whose cumulative
\* ad revenue is the same sum over d = 0..m.
C21_AdRevenueAccumulation ==
    IterationReturned =>
        /\ ret.ltv_result.ltv_iaa = AdRevenue(0, call.days)
        /\ \A m \in MilestoneDays :
              m <= call.days =>
                 /\ Cardinality(EntriesOf(m)) = 1
                 /\ \A i \in EntriesOf(m) :
                       ret.ltv_result.daily_breakdown[i].cumulative_iaa
                          = AdRevenue(0, m)

\* A year with a sampled retention_mult of 1.1 in the configuration nobody
\* is retained in after a year: the factor of day 0 is held at 1.0, that of
\* day 365 at 0.0001.
C21_Witness ==
    /\ IterationReturned
    /\ call.days = 365
    /\ call.params.retention_mult > ONE
    /\ get_retention_at_day(config.retention, 365) = 0
    /\ ClampedRetention(0) = ONE
    /\ ClampedRetention(365) = 100
    /\ ret.ltv_result.ltv_iaa > 0
    /\ Len(ret.ltv_result.daily_breakdown) = 366

\* The scenario appended has a positive finite blended_cpi.
UsableCpi ==
    /\ ret.appended.blended_cpi > 0
    /\ ret.appended.blended_cpi < ZeroDivisionError

\* The sum of the fee-adjusted payments of the events i.. with day <= m.
RECURSIVE NetPaymentsThrough(_, _)
NetPaymentsThrough(m, i) ==
    IF i > Len(ret.ltv_result.iap_events) THEN 0
    ELSE (IF ret.ltv_result.iap_events[i].day <= m
          THEN MulF(ret.ltv_result.iap_events[i].amount,
                    ONE - config.subscription.platform_fee_rate)
          ELSE 0)
         + NetPaymentsThrough(m, i + 1)

\* The milestones within the horizon, by their index, and the index of the
\* horizon when it is a milestone.
MilestonesWithin == {k \in 1..Len(Milestones) : Milestones[k] <= call.days}
HorizonIndex == {k \in 1..Len(Milestones) : Milestones[k] = call.days}

\* The curve at each milestone within the horizon is (ad revenue through the
\* milestone + fee-adjusted payments of the events up to it) / blended_cpi.
CurveWithinHorizon ==
    \A k \in MilestonesWithin :
       ret.appended.roas_curve[k]
          = DivF(AdRevenue(0, Milestones[k])
                    + NetPaymentsThrough(Milestones[k], 1),
                 ret.appended.blended_cpi)

\* C22 as stated: for a positive finite blended_cpi the curve at every
\* milestone m <= horizon is (ad revenue through m + fee-adjusted payments
\* with day <= m) / blended_cpi, and the curve at a horizon that is a
\* milestone equals the final roas.
C22_RoasCurve ==
    (IterationReturned /\ UsableCpi) =>
        /\ CurveWithinHorizon
        /\ \A k \in HorizonIndex :
              ret.appended.roas_curve[k] = ret.appended.roas

\* C22: for a positive finite blended_cpi the curve at every milestone
\* m <= horizon is (ad revenue through m + fee-adjusted payments with
\* day <= m) / blended_cpi; the curve at a horizon that is a milestone
\* equals the final roas up to the rounding of the fee products, of which
\* the curve has one per event and the final roas one.
C22_RoasCurveNearFinal ==
    (IterationReturned /\ UsableCpi) =>
        /\ CurveWithinHorizon
        /\ \A k \in HorizonIndex :
              Abs(ret.appended.roas_curve[k] - ret.appended.roas)
                 <= DivF(Len(ret.ltv_result.iap_events) + 1,
                         ret.appended.blended_cpi) + 1

\* A stochastic scenario over 14 days, a milestone, with subscription
\* payments within the horizon.
C22_Witness ==
    /\ IterationReturned /\ UsableCpi
    /\ call.days = 14
    /\ ~_is_deterministic(config)
    /\ NetPaymentsThrough(14, 1) > 0
    /\ ret.appended.roas_curve[5] > ret.appended.roas_curve[4]
    /\ ret.appended.roas > 0

\* A call of one of the two decayed metrics has returned; its D0 value and
\* its saturation value.
DecayReturned ==
    pc = "returned" /\ call.op \in {"get_ecpm_at_day", "get_impressions_at_day"}

DecayBase ==
    IF call.op = "get_ecpm_at_day" THEN call.params.ecpm_d0
    ELSE call.params.impressions_d0

DecaySaturation ==
    IF call.op = "get_ecpm_at_day"
    THEN MulF(call.params.ecpm_d0, call.params.ecpm_saturation_ratio)
    ELSE MulF(call.params.impressions_d0,
              call.params.impressions_saturation_ratio)

\* C23: at day <= 0 the D0 value is returned unmodified, and at
\* day = half_life the value has closed half of the gap between the D0
\* value and the saturation value: value - saturation = (D0 - saturation) / 2
\* (up to the last digit of the grid).
C23_HalfLife ==
    DecayReturned =>
        /\ call.day <= 0 => ret = DecayBase
        /\ call.day = call.params.decay_half_life =>
              Abs(2 * (ret - DecaySaturation) - (DecayBase - DecaySaturation))
                 <= 2

\* The curve value and the final roas agree up to the rounding of the fee
\* products.
NearFinalRoas(x) ==
    Abs(x - ret.appended.roas)
       <= DivF(Len(ret.ltv_result.iap_events) + 1, ret.appended.blended_cpi) + 1

\* C26: for a positive finite blended_cpi and a horizon in 1..365 the
\* roas_curve is non-decreasing in the milestone day, and at every milestone
\* m >= horizon it is the final roas (up to the rounding of the fee
\* products), in deterministic mode as in stochastic mode, whether or not
\* the horizon is a milestone.
C26_CurveFlatFromHorizon ==
    (IterationReturned /\ UsableCpi /\ call.days \in 1..365) =>
        /\ \A k \in 1..(Len(Milestones) - 1) :
              ret.appended.roas_curve[k] <= ret.appended.roas_curve[k + 1]
        /\ \A k \in 1..Len(Milestones) :
              Milestones[k] >= call.days =>
                 NearFinalRoas(ret.appended.roas_curve[k])

\* The entry of a breakdown for a day (there is one).
EntryOn(daily_breakdown, m) ==
    daily_breakdown[CHOOSE i \in 1..Len(daily_breakdown) :
                       daily_breakdown[i].day = m]

SameCumulative(a, b) ==
    /\ a.cumulative_iaa = b.cumulative_iaa
    /\ a.cumulative_iap = b.cumulative_iap
    /\ a.cumulative_total = b.cumulative_total

-----------------------------------------------------------------------------
(* Properties of run() draw by draw (SpecRun)                              *)

\* The rejection loop of the argument that is due.
InLoop(k) == pc = "sampling" /\ Len(call.sampled) = k - 1

\* The argument that was due has its value.
LoopReturned(k) == pc = "sampling" /\ Len(call.sampled) >= k

\* The scenarios of a run never exceed n_simulations.
WithinScenarioCount == Len(results) <= n_simulations

\* C30: given that a draw inside the band eventually occurs, every call of
\* sample_with_variation returns, so _sample_params and every scenario end,
\* and a run that has started ends with exactly n_simulations scenarios.
C30_RunTerminates ==
    /\ \A k \in 1..9 : InLoop(k) ~> LoopReturned(k)
    /\ (pc = "sampling") ~> (pc = "running")
    /\ (pc = "running") ~> (pc = "done" /\ Len(results) = n_simulations)
    /\ []WithinScenarioCount

\* A run of two scenarios has ended on a configuration whose renewal
\* multiplier is drawn around 1.0 with draws outside the band 0.97..1.03.
C30_Witness ==
    /\ pc = "done"
    /\ n_simulations = 2
    /\ Len(results) = n_simulations
    /\ \E value \in Normal(ONE, MulF(ONE, config.simulation.sub_ret_variation)) :
          ~DrawAccepted(ONE, value, 970000, 1030000)
    /\ DrawAccepted(ONE, call.sampled[9], 970000, 1030000)
    /\ call.sampled[9] # ONE

====
